---------------------------- MODULE Spec2Model ----------------------------
(***************************************************************************)
(* Model of the generate / validate / repair loop of vocoweb               *)
(*   backend/app/api/routes/generate_code.py                               *)
(*   backend/app/ai/validator.py                                           *)
(*                                                                         *)
(* Text.  A Python string is a sequence of atoms; an atom stands for one   *)
(* literal piece of text, and every substring test of the code            *)
(* ("cdn.tailwindcss.com" in html, "<head>" in html.lower(), kw in         *)
(* html_lower, startswith, endswith) becomes a test on atoms.  The atoms:  *)
(*   "tailwind"  <script src="https://cdn.tailwindcss.com"></script>     *)
(*   "fonts"     the three <link ... fonts.googleapis.com ...> tags        *)
(*   "<head>"    the literal <head>          "<HEAD>"  the literal <HEAD>  *)
(*   "<head lang>"  an opening head tag with an attribute, <head lang="en">  *)
(*   "</head>" "<body>" "</body>" "doctype" "meta" "style" "comment"       *)
(*               the pieces of the injected block and of the skeleton      *)
(*   "fence"     a code fence of three backquotes                          *)
(*   "html"      the language tag html                                     *)
(*   "json"      the language tag json       "nl"      white space         *)
(*   "P"         the JSON value of a judge response   "junk"  other text  *)
(*   "div"       <div>hi</div>, text that holds no keyword                 *)
(*   "page"      body text that holds a keyword of every section           *)
(*   "nofooter"  the same text without the footer                          *)
(*   "FOOTER"    <FOOTER>...</FOOTER> in capitals                          *)
(*   "noopener"  <a rel="noopener">, text whose only keyword is "open"     *)
(*   "unavailable"  <p>unavailable</p>, text whose only keyword is "nav"    *)
(***************************************************************************)
EXTENDS Integers, Sequences, FiniteSets, TLC

VARIABLES
    \* generate_website_code, one run
    pc,                 \* position in generate_website_code
    api_key,            \* os.getenv("OPENAI_API_KEY") is set
    request,            \* the arguments of the call
    system_prompt,      \* local system_prompt
    user_message,       \* local user_message
    last_response,      \* history: the model response of the last generation call
    html_code,          \* local html_code
    validation,         \* local validation
    first_validation,   \* history: the result of the first validate_website call
    repair_message,     \* local repair_message
    sent,               \* history: the messages of the last generation call
    result,             \* what the call gave its caller: a return or an exception
    gen_calls,          \* history: calls of _call_ai_generation
    val_calls,          \* history: calls of validate_website
    repair_calls,       \* history: calls of generate_repair_prompt
    \* _call_ai_generation as a function of the model response
    g_pc, g_response, g_return,
    \* validate_website as a function of markup, market and judge outcome
    v_pc, v_html, v_market, v_env, v_return,
    \* _ensure_tailwind_cdn applied once and twice
    a_pc, a_html, a_once, a_twice,
    \* the user message of lines 177-205 for a request and for a second request
    \* that differs from it in the fields of the other market only
    m_pc, m_req, m_twin, m_msg, m_twin_msg,
    \* generate_repair_prompt as a function of the section list and the market
    p_pc, p_missing, p_market, p_return,
    \* two calls of generate_website_code in one process
    r_env,              \* what every call reads: OPENAI_API_KEY is set (client, os.getenv)
    r_pc,               \* per call: position
    r_request,          \* per call: the arguments
    r_html,             \* per call: local html_code
    r_validation,       \* per call: local validation
    r_result,           \* per call: what the call gave its caller
    r_gens,             \* per call, history: the responses to its generation calls
    r_judges,           \* per call, history: the judge responses to its validation calls
    \* the route generate_code, one request
    t_pc,               \* position in generate_code
    t_in,               \* the request (x-market header, body market) and what the
                        \* checks answer (mode, rate limiter, credits)
    t_market,           \* local market
    t_status,           \* status code of the response, 0 while there is none
    t_calls,            \* history: calls of generate_website_code
    \* RateLimiter.is_rate_limited: the requests of one client on one path
    l_path,             \* request.url.path, as its segments
    l_now,              \* time.time(), in seconds
    l_zset,             \* Redis: the sorted set under the key, as member -> score
    l_expire_at,        \* Redis: the time at which the key expires, -1 for none
    l_passed,           \* history: the times of the requests reported as not limited
    l_result,           \* the return of the last call
    l_requests,         \* history: number of calls
    \* UpstashRateLimiter: concurrent calls of check_action_limit for one user and action
    u_action,           \* argument action
    u_configured,       \* is_configured()
    u_clock,            \* time.time() // window_seconds
    u_redis,            \* Upstash: window bucket -> counter and expiry, for the existing keys
    u_pc,               \* per caller: position in is_rate_limited
    u_key,              \* per caller: the window bucket of local window_key
    u_count,            \* per caller: local count
    u_result,           \* per caller: the return of check_action_limit
    u_allowed,          \* history: window bucket -> calls that returned allowed
    u_calls,            \* history: number of calls started
    \* SupabaseService.deduct_credits: concurrent calls for one user and action
    c_configured,       \* is_configured()
    c_action,           \* argument action
    c_start,            \* history: the balance before the first call
    c_balance,          \* table credits: balance of the user
    c_pc,               \* per caller: position in deduct_credits
    c_credits,          \* per caller: local credits["balance"]
    c_ret,              \* per caller: the return value, "none" while there is none
    c_paid              \* history: calls that returned True for a cost above 0

orchVars == <<pc, api_key, request, system_prompt, user_message, last_response, html_code,
              validation, first_validation, repair_message, sent, result, gen_calls,
              val_calls, repair_calls>>
genVars == <<g_pc, g_response, g_return>>
valVars == <<v_pc, v_html, v_market, v_env, v_return>>
assetVars == <<a_pc, a_html, a_once, a_twice>>
msgVars == <<m_pc, m_req, m_twin, m_msg, m_twin_msg>>
repVars == <<p_pc, p_missing, p_market, p_return>>
runVars == <<r_env, r_pc, r_request, r_html, r_validation, r_result, r_gens, r_judges>>
routeVars == <<t_pc, t_in, t_market, t_status, t_calls>>
limVars == <<l_path, l_now, l_zset, l_expire_at, l_passed, l_result, l_requests>>
upVars == <<u_action, u_configured, u_clock, u_redis, u_pc, u_key, u_count, u_result,
            u_allowed, u_calls>>
credVars == <<c_configured, c_action, c_start, c_balance, c_pc, c_credits, c_ret, c_paid>>
backVars == <<limVars, upVars, credVars>>
svcVars == <<routeVars, backVars>>
otherVars == <<msgVars, repVars, runVars, svcVars>>
coreVars == <<orchVars, genVars, valVars, assetVars>>
vars == <<coreVars, otherVars>>

\* ------------------------------------------------------------------ bounds
MaxMarkupLen == 3       \* atoms of a markup given to _ensure_tailwind_cdn
MaxContentLen == 3      \* atoms of a generation response
MaxPageLen == 2         \* atoms of a markup given to validate_website
MaxImages == 4          \* entries of user_images
MaxMissing == 2         \* entries of a missing_sections list given to generate_repair_prompt

\* ------------------------------------------------------------------ text
RECURSIVE StringsUpTo(_, _)
StringsUpTo(alphabet, n) ==
    IF n = 0 THEN {<<>>}
    ELSE LET shorter == StringsUpTo(alphabet, n - 1)
         IN  shorter \cup {Append(s, c) : s \in {t \in shorter : Len(t) = n - 1}, c \in alphabet}

\* str.lower() on one atom and on a string
LowerAtom(c) ==
    CASE c = "<HEAD>" -> "<head>"
      [] c = "FOOTER" -> "footer"
      [] OTHER -> c

Lower(s) == [i \in 1..Len(s) |-> LowerAtom(s[i])]

\* `needle in s` for a one-atom needle
Contains(s, needle) == \E i \in 1..Len(s) : s[i] = needle

\* s.find(needle) + len(needle): the position just after the first occurrence
FindEnd(s, needle) ==
    CHOOSE i \in 1..Len(s) : s[i] = needle /\ \A j \in 1..(i - 1) : s[j] # needle

Count(s, needle) == Cardinality({i \in 1..Len(s) : s[i] = needle})

\* ------------------------------------------------- _ensure_tailwind_cdn
tailwind_cdn == <<"tailwind">>
google_fonts == <<"fonts">>

\* faulty variant: the injected block without the font links
injection_without_fonts == <<"comment">> \o tailwind_cdn \o <<"style">>

\* the block injected after <head> (generate_code.py 287-296)
injection == <<"comment">> \o tailwind_cdn \o <<"comment">> \o google_fonts \o <<"style">>

\* faulty variant: the font links put at the top of the body
skeleton_open_fonts_in_body ==
    <<"doctype", "<head>", "meta">> \o tailwind_cdn
        \o <<"style", "</head>", "<body>">> \o google_fonts

\* the head of the skeleton built when there is no <head> (300-313)
skeleton_open ==
    <<"doctype", "<head>", "meta">> \o tailwind_cdn \o google_fonts
        \o <<"style", "</head>", "<body>">>

skeleton_close == <<"</body>">>

\* faulty variant: the slices of lines 296 taken from html.lower()
ensure_tailwind_cdn_slices_lower(html) ==
    IF Contains(html, "tailwind") THEN html
    ELSE IF Contains(Lower(html), "<head>")
         THEN LET head_end == FindEnd(Lower(html), "<head>")
              IN  SubSeq(Lower(html), 1, head_end) \o injection
                      \o SubSeq(Lower(html), head_end + 1, Len(html))
         ELSE skeleton_open \o html \o skeleton_close

\* faulty variant: the check of line 278 left out
ensure_tailwind_cdn_no_check(html) ==
    IF Contains(Lower(html), "<head>")
    THEN LET head_end == FindEnd(Lower(html), "<head>")
         IN  SubSeq(html, 1, head_end) \o injection \o SubSeq(html, head_end + 1, Len(html))
    ELSE skeleton_open \o html \o skeleton_close

ensure_tailwind_cdn(html) ==
    IF Contains(html, "tailwind") THEN html
    ELSE IF Contains(Lower(html), "<head>")
         THEN LET head_end == FindEnd(Lower(html), "<head>")
              IN  SubSeq(html, 1, head_end) \o injection
                      \o SubSeq(html, head_end + 1, Len(html))
         ELSE skeleton_open \o html \o skeleton_close

None == <<"None">>

\* ------------------------------------------------- _call_ai_generation
StartsWith(s, prefix) ==
    Len(s) >= Len(prefix) /\ SubSeq(s, 1, Len(prefix)) = prefix

EndsWith(s, suffix) ==
    Len(s) >= Len(suffix) /\ SubSeq(s, Len(s) - Len(suffix) + 1, Len(s)) = suffix

DropFirst(s, n) == SubSeq(s, n + 1, Len(s))
DropLast(s, n) == SubSeq(s, 1, Len(s) - n)

\* str.strip(): white space off both ends
RECURSIVE LStrip(_)
LStrip(s) == IF s # <<>> /\ Head(s) = "nl" THEN LStrip(Tail(s)) ELSE s

RECURSIVE RStrip(_)
RStrip(s) == IF s # <<>> /\ s[Len(s)] = "nl" THEN RStrip(DropLast(s, 1)) ELSE s

Strip(s) == RStrip(LStrip(s))

\* generate_code.py 249-256: the three ifs in sequence, then strip()
clean_response(content) ==
    LET s1 == IF StartsWith(content, <<"fence", "html">>) THEN DropFirst(content, 2) ELSE content
        s2 == IF StartsWith(s1, <<"fence">>) THEN DropFirst(s1, 1) ELSE s1
        s3 == IF EndsWith(s2, <<"fence">>) THEN DropLast(s2, 1) ELSE s2
    IN  Strip(s3)

\* What a call returns or raises.
Returned(v) == [raised |-> FALSE, exc |-> "none", status_code |-> 0, value |-> v]
Raised(e, code, nothing) == [raised |-> TRUE, exc |-> e, status_code |-> code, value |-> nothing]

\* A response of the generation model: the call errors, or message.content is
\* None, or it is text.
GenError == [kind |-> "error", content |-> <<>>]
GenNone == [kind |-> "none", content |-> <<>>]
GenText(c) == [kind |-> "text", content |-> c]
NoResponse == [kind |-> "no call yet", content |-> <<>>]

\* faulty variant: the cleaned text returned without the call of line 259
call_ai_generation_without_assets(response) ==
    IF response.kind \in {"error", "none"} THEN Raised("HTTPException", 500, None)
    ELSE Returned(clean_response(response.content))

\* generate_code.py 233-264.  Everything is inside try/except Exception: an API
\* error, and the AttributeError of None.startswith, become HTTPException(500).
call_ai_generation(response) ==
    IF response.kind = "error" THEN Raised("HTTPException", 500, None)
    ELSE IF response.kind = "none" THEN Raised("HTTPException", 500, None)
    ELSE Returned(ensure_tailwind_cdn(clean_response(response.content)))

\* ------------------------------------------------------ Python / JSON values
\* One shape for every value: a type and, for a list or a string, its items.
\* An item is a string (et = "str") or a number (et = "num").
Str(x) == [et |-> "str", s |-> x]
Num(x) == [et |-> "num", s |-> x]

JTrue == [type |-> "true", items |-> <<>>]
JFalse == [type |-> "false", items |-> <<>>]
JNull == [type |-> "null", items |-> <<>>]
JNumber == [type |-> "number", items |-> <<>>]        \* the number 7
JAbsent == [type |-> "absent", items |-> <<>>]        \* the key is not in the object
JList(its) == [type |-> "list", items |-> its]
JText(its) == [type |-> "string", items |-> its]      \* a string, as its pieces

PyBool(b) == IF b THEN JTrue ELSE JFalse
PyList(names) == JList([i \in 1..Len(names) |-> Str(names[i])])

\* Python truth value: bool(v)
Truthy(v) ==
    CASE v.type = "true" -> TRUE
      [] v.type = "number" -> TRUE
      [] v.type \in {"list", "string"} -> v.items # <<>>
      [] OTHER -> FALSE

\* dict.get(key, default)
Get(v, default) == IF v = JAbsent THEN default ELSE v

\* ------------------------------------------------------------ validator.py
\* faulty variant: every market but "GLOBAL" gets the IN list
MANDATORY_SECTIONS_default_IN(market) ==
    IF market = "GLOBAL"
    THEN <<"sticky navbar", "authority hero section", "offer/services section",
           "about/credibility section", "social proof/testimonials",
           "booking/cta section", "footer">>
    ELSE <<"sticky navbar", "hero section", "services section", "about/trust section",
           "social proof/testimonials", "location/contact section", "business hours",
           "sticky mobile footer", "footer">>

\* validator.py 13-34, read as MANDATORY_SECTIONS.get(market, MANDATORY_SECTIONS["GLOBAL"])
MANDATORY_SECTIONS(market) ==
    IF market = "IN"
    THEN <<"sticky navbar", "hero section", "services section", "about/trust section",
           "social proof/testimonials", "location/contact section", "business hours",
           "sticky mobile footer", "footer">>
    ELSE <<"sticky navbar", "authority hero section", "offer/services section",
           "about/credibility section", "social proof/testimonials",
           "booking/cta section", "footer">>

\* validator.py 118-132
keyword_map ==
    [section \in {"sticky navbar", "hero section", "authority hero section",
                  "services section", "offer/services section", "about/trust section",
                  "about/credibility section", "social proof/testimonials",
                  "location/contact section", "business hours", "sticky mobile footer",
                  "booking/cta section", "footer"} |->
        CASE section = "sticky navbar" -> {"nav", "navbar", "header"}
          [] section = "hero section" -> {"hero", "min-h-screen", "above-the-fold"}
          [] section = "authority hero section" -> {"hero", "min-h-screen"}
          [] section = "services section" -> {"services", "what we offer", "our services"}
          [] section = "offer/services section" -> {"services", "offer", "how i can help"}
          [] section = "about/trust section" -> {"about", "trust", "who we are"}
          [] section = "about/credibility section" -> {"about", "credibility", "who i am"}
          [] section = "social proof/testimonials" ->
                 {"testimonial", "review", "client", "social proof"}
          [] section = "location/contact section" -> {"contact", "location", "address", "map"}
          [] section = "business hours" -> {"hours", "timing", "open", "schedule"}
          [] section = "sticky mobile footer" -> {"fixed", "bottom", "mobile", "sticky"}
          [] section = "booking/cta section" -> {"book", "schedule", "calendly", "apply"}
          [] section = "footer" -> {"footer", "</footer>"}]

AllKeywords == UNION {keyword_map[section] : section \in DOMAIN keyword_map}

\* The keywords that occur in the text of an atom.
AtomKeywords(atom) ==
    CASE atom = "page" -> AllKeywords
      [] atom = "nofooter" -> AllKeywords \ {"footer", "</footer>"}
      [] atom = "footer" -> {"footer", "</footer>"}
      [] atom = "noopener" -> {"open"}
      [] atom = "unavailable" -> {"nav"}
      [] OTHER -> {}

\* kw in html_lower
HasKeyword(html_lower, kw) == \E i \in 1..Len(html_lower) : kw \in AtomKeywords(html_lower[i])

\* section.split()[0]
FirstWord(section) ==
    CASE section \in {"sticky navbar", "sticky mobile footer"} -> "sticky"
      [] section = "hero section" -> "hero"
      [] section = "authority hero section" -> "authority"
      [] section = "services section" -> "services"
      [] section = "business hours" -> "business"
      [] section = "social proof/testimonials" -> "social"
      [] section = "about/trust section" -> "about/trust"
      [] section = "about/credibility section" -> "about/credibility"
      [] section = "offer/services section" -> "offer/services"
      [] section = "location/contact section" -> "location/contact"
      [] section = "booking/cta section" -> "booking/cta"
      [] OTHER -> section

ValidationResult(valid, missing, found, suggestions) ==
    [valid |-> valid, missing_sections |-> missing, found_sections |-> found,
     suggestions |-> suggestions]

NoValidation == ValidationResult(JAbsent, JAbsent, JAbsent, JAbsent)

\* faulty variant: valid as soon as one section is found
fallback_validation_valid_when_any_found(html, market) ==
    LET mandatory == MANDATORY_SECTIONS(market)
        isFound(section) == \E kw \in keyword_map[section] : HasKeyword(Lower(html), kw)
        isMissing(section) == ~isFound(section)
        found == SelectSeq(mandatory, isFound)
    IN  ValidationResult(PyBool(found # <<>>), PyList(SelectSeq(mandatory, isMissing)),
                         PyList(found), JText(<<Str("All sections present")>>))

\* validator.py 110-149
fallback_validation(html, market) ==
    LET html_lower == Lower(html)
        mandatory == MANDATORY_SECTIONS(market)
        keywords(section) ==
            IF section \in DOMAIN keyword_map THEN keyword_map[section]
            ELSE {FirstWord(section)}
        isFound(section) == \E kw \in keywords(section) : HasKeyword(html_lower, kw)
        isMissing(section) == ~isFound(section)
        found == SelectSeq(mandatory, isFound)
        missing == SelectSeq(mandatory, isMissing)
    IN  ValidationResult(
            PyBool(Len(missing) = 0),
            PyList(missing),
            PyList(found),
            IF missing # <<>> THEN JText(<<Str("Missing:")>> \o PyList(missing).items)
            ELSE JText(<<Str("All sections present")>>))

\* A response of the judge model: the call errors or times out, message.content
\* is None, or it is text.  In the text the atom "P" stands for one JSON value,
\* the payload: an object with any of the four keys, or a value that is no object.
JudgeFailure(k) == [kind |-> k, content |-> <<>>, shape |-> "none", object |-> NoValidation]
JudgeText(c, shape, obj) == [kind |-> "text", content |-> c, shape |-> shape, object |-> obj]

\* content.split(fence)[1] for content that starts with a fence
SplitSecond(content) ==
    LET rest == DropFirst(content, 1)
    IN  IF Contains(rest, "fence") THEN SubSeq(rest, 1, FindEnd(rest, "fence") - 1) ELSE rest

\* validator.py 88-95
clean_json(raw) ==
    LET content == Strip(raw)
        inner == IF StartsWith(content, <<"fence">>)
                 THEN LET part == SplitSecond(content)
                      IN  IF StartsWith(part, <<"json">>) THEN DropFirst(part, 1) ELSE part
                 ELSE content
    IN  Strip(inner)

\* validator.py 56-103, the body of the try: what it returns or raises
judge_attempt(market, judge) ==
    IF judge.kind \in {"error", "timeout"} THEN Raised("APIError", 0, NoValidation)
    ELSE IF judge.kind = "none" THEN Raised("AttributeError", 0, NoValidation)
    ELSE IF clean_json(judge.content) # <<"P">> THEN Raised("JSONDecodeError", 0, NoValidation)
    ELSE IF judge.shape # "object" THEN Raised("AttributeError", 0, NoValidation)
    ELSE Returned(ValidationResult(
             Get(judge.object.valid, JFalse),
             Get(judge.object.missing_sections, JList(<<>>)),
             Get(judge.object.found_sections, JList(<<>>)),
             Get(judge.object.suggestions, JText(<<>>))))

\* faulty variant: a handler that catches the API errors only
except_api_errors_only(exc) == exc = "APIError"

\* except Exception (validator.py 105): every exception of the try is caught
except_Exception(exc) == TRUE

\* validator.py 37-107
validate_website(html, market, env) ==
    IF ~env.api_key THEN Returned(fallback_validation(html, market))
    ELSE LET attempt == judge_attempt(market, env.judge)
         IN  IF ~attempt.raised THEN attempt
             ELSE IF except_Exception(attempt.exc)
                  THEN Returned(fallback_validation(html, market))
                  ELSE attempt

\* The patterns of _get_section_requirements that occur in section.lower()
SectionWords(section) ==
    CASE section = "sticky navbar" -> {"navbar"}
      [] section \in {"hero section", "authority hero section"} -> {"hero"}
      [] section \in {"services section", "offer/services section"} -> {"service"}
      [] section = "about/trust section" -> {"about"}
      [] section = "about/credibility section" -> {"about", "credibility"}
      [] section = "social proof/testimonials" -> {"testimonial", "social proof"}
      [] section = "location/contact section" -> {"contact", "location"}
      [] section = "business hours" -> {"hours"}
      [] section = "sticky mobile footer" -> {"sticky mobile", "footer"}
      [] section = "booking/cta section" -> {"booking", "cta"}
      [] section = "footer" -> {"footer"}
      [] OTHER -> {}

\* validator.py 183-205: the if/elif chain for one section; "" when nothing matches
requirement_for(section, market) ==
    LET w == SectionWords(section)
    IN  IF "navbar" \in w THEN "NAVBAR"
        ELSE IF "hero" \in w THEN (IF market = "IN" THEN "HERO whatsapp" ELSE "HERO booking")
        ELSE IF "service" \in w THEN "SERVICES"
        ELSE IF "about" \in w \/ "credibility" \in w THEN "ABOUT"
        ELSE IF "testimonial" \in w \/ "social proof" \in w THEN "TESTIMONIALS"
        ELSE IF "contact" \in w \/ "location" \in w THEN "CONTACT"
        ELSE IF "hours" \in w THEN "HOURS"
        ELSE IF "sticky mobile" \in w THEN "STICKY MOBILE FOOTER"
        ELSE IF "booking" \in w \/ "cta" \in w THEN "BOOKING CTA"
        ELSE IF "footer" \in w THEN "FOOTER"
        ELSE ""

RepairPrompt(sections, requirements) ==
    [sections_list |-> sections, requirements |-> requirements]

NoPrompt == RepairPrompt(<<>>, <<>>)

\* validator.py 178-207, on a list of strings
get_section_requirements(items, market) ==
    LET each == [i \in 1..Len(items) |-> requirement_for(items[i].s, market)]
        emitted(r) == r # ""
    IN  SelectSeq(each, emitted)

\* validator.py 152-175.  Line 163 iterates missing_sections (TypeError on a value
\* that is no list or string); line 183 calls section.lower() on every element
\* (AttributeError on an element that is no string).
generate_repair_prompt(missing_sections, market) ==
    IF missing_sections.type \notin {"list", "string"} THEN Raised("TypeError", 0, NoPrompt)
    ELSE IF \E i \in 1..Len(missing_sections.items) : missing_sections.items[i].et # "str"
         THEN Raised("AttributeError", 0, NoPrompt)
         ELSE Returned(RepairPrompt(missing_sections.items,
                                    get_section_requirements(missing_sections.items, market)))

\* ------------------------------------------- generate_website_code: prompts
\* A line of the user message: its label and the value that follows it.
Line(label, value) == [label |-> label, value |-> value]

\* bool(x) of an Optional[str] or a list: None and the empty value are false.
\* Both are written <<>> here.
Given(x) == x # <<>>

\* str.replace(" ", "%20")
UrlEncode(msg) == [i \in 1..Len(msg) |-> IF msg[i] = " " THEN "%20" ELSE msg[i]]

default_whatsapp_message ==
    <<"Hi,", " ", "I", " ", "would", " ", "like", " ", "to", " ", "inquire", " ", "about",
      " ", "your", " ", "services">>

image_labels == <<"Hero/Shop Front", "Owner/Team", "Product/Service">>

\* generate_code.py 63-129, with the guidelines file present: the industry of the
\* first keyword of industry_map found in business_type.lower(), else DEFAULT
load_branding_for_industry(business_type) ==
    CASE business_type = <<"Dental">> -> <<"HEALTHCARE">>
      [] business_type = <<"Bakery">> -> <<"FOOD & HOSPITALITY">>
      [] OTHER -> <<"DEFAULT">>

\* generate_code.py 164-175
compose_system_prompt(req) ==
    LET base == IF req.market = "IN" THEN <<"india_system_prompt.txt">>
                ELSE <<"global_system_prompt.txt">>
    IN  IF Given(req.business_type) /\ Given(load_branding_for_industry(req.business_type))
        THEN base \o <<"=== INDUSTRY-SPECIFIC BRANDING ===">>
                  \o load_branding_for_industry(req.business_type)
        ELSE base

\* theme_colors.get(key, default)
ThemeColor(req, key, default) ==
    IF key \in DOMAIN req.theme_colors THEN req.theme_colors[key] ELSE default

\* faulty variant: the WhatsApp number written for every market
compose_user_message_number_always(req) ==
    << Line("USER REQUEST:", req.user_prompt),
       Line("- WhatsApp Number:", req.whatsapp_number) >>
    \o (IF req.market = "IN" THEN <<Line("- Google Maps Link:", req.google_map_link)>>
        ELSE <<Line("- Brand Voice:", req.brand_voice)>>)

\* generate_code.py 177-205
compose_user_message(req) ==
    LET settings ==
            << Line("USER REQUEST:", req.user_prompt),
               Line("DESIGN SETTINGS:", <<>>),
               Line("- Primary Color:", ThemeColor(req, "primary", <<"#0d9488">>)),
               Line("- Accent Color:", ThemeColor(req, "accent", <<"#f97316">>)) >>
        whatsapp ==
            IF Given(req.whatsapp_number)
            THEN << Line("- WhatsApp Number:", req.whatsapp_number),
                    Line("- WhatsApp Message (URL encoded):",
                         UrlEncode(IF Given(req.whatsapp_message) THEN req.whatsapp_message
                                   ELSE default_whatsapp_message)) >>
            ELSE <<>>
        shown == SubSeq(req.user_images, 1, IF Len(req.user_images) < 3
                                            THEN Len(req.user_images) ELSE 3)
        images ==
            IF Given(req.user_images)
            THEN <<Line("USER IMAGES PROVIDED:", <<>>)>> \o
                 [i \in 1..Len(shown) |->
                     Line(IF i <= Len(image_labels) THEN image_labels[i] ELSE "Additional",
                          <<shown[i]>>)]
            ELSE <<>>
        map == IF Given(req.google_map_link)
               THEN <<Line("- Google Maps Link:", req.google_map_link)>> ELSE <<>>
        voice == IF Given(req.brand_voice)
                 THEN <<Line("- Brand Voice:", req.brand_voice)>> ELSE <<>>
        booking == IF Given(req.booking_link)
                   THEN <<Line("- Booking Link:", req.booking_link)>> ELSE <<>>
        mail == IF Given(req.email)
                THEN <<Line("- Contact Email:", req.email)>> ELSE <<>>
    IN  settings
        \o (IF req.market = "IN" THEN whatsapp \o images \o map
            ELSE voice \o booking \o mail)
        \o <<Line("Generate the complete HTML website now. Include ALL mandatory sections.",
                  <<>>)>>

\* ------------------------------------------------------------------ inputs
Markets == {"IN", "GLOBAL", "US"}       \* "US": a value that is neither

Request(market, number, message, images, map, voice, booking, mail, business) ==
    [market |-> market, user_prompt |-> <<"prompt">>,
     theme_colors |-> [k \in {"primary"} |-> <<"#112233">>],
     whatsapp_number |-> number, whatsapp_message |-> message, user_images |-> images,
     google_map_link |-> map, brand_voice |-> voice, booking_link |-> booking,
     email |-> mail, business_type |-> business]

NoRequest == Request("", <<>>, <<>>, <<>>, <<>>, <<>>, <<>>, <<>>, <<>>)

Requests ==
    { Request("IN", <<"+9199">>, <<"Hi", " ", "there">>, <<"a.png", "b.png", "c.png", "d.png">>,
              <<"maps/x">>, <<"Corporate & Clean">>, <<>>, <<>>, <<"Dental">>),
      Request("IN", <<>>, <<>>, <<>>, <<>>, <<>>, <<>>, <<>>, <<>>),
      Request("GLOBAL", <<"+9199">>, <<>>, <<>>, <<>>, <<"Bold">>, <<"cal.com/x">>,
              <<"a@b.c">>, <<"Bakery">>),
      Request("US", <<"+9199">>, <<>>, <<"a.png">>, <<"maps/x">>, <<"Corporate & Clean">>,
              <<"cal.com/x">>, <<>>, <<"Florist">>) }

\* Responses of the generation model in one run.
GenResponses ==
    { GenError, GenNone } \cup
    { GenText(c) : c \in { <<>>,
                           <<"fence", "html", "nl", "fence">>,
                           <<"page">>,
                           <<"fence", "html", "nl", "<head>", "page", "nl", "fence">>,
                           <<"nofooter">>,
                           <<"tailwind", "nofooter", "FOOTER">>,
                           <<"div">> } }

\* JSON objects the judge may answer with.
JudgeObjects ==
    { ValidationResult(valid, missing, found, JAbsent) :
        valid \in {JTrue, JFalse, JNull, JAbsent},
        missing \in { JAbsent, JList(<<>>), PyList(<<"footer">>), PyList(<<"sidebar">>),
                      JList(<<Num("7")>>), JNumber },
        found \in { JAbsent, PyList(SubSeq(MANDATORY_SECTIONS("GLOBAL"), 1, 6)) } }

JudgeTexts ==
    { <<"P">>, <<"nl", "P", "nl">>, <<"fence", "json", "nl", "P", "nl", "fence">>,
      <<"fence", "nl", "P", "fence", "nl">>, <<"fence">>, <<"json", "P">>, <<"P", "junk">>,
      <<"junk">>, <<>> }

JudgeResponses ==
    { JudgeFailure(k) : k \in {"error", "timeout", "none"} }
    \cup { JudgeText(<<"P">>, "object", obj) : obj \in JudgeObjects }
    \cup { JudgeText(c, "object",
                      ValidationResult(JFalse, PyList(<<"footer">>), JAbsent, JAbsent)) :
             c \in JudgeTexts }
    \cup { JudgeText(c, "array", NoValidation) : c \in JudgeTexts }

Env(key, judge) == [api_key |-> key, judge |-> judge]

\* --------------------------------------------------- the four specifications
\* The messages of a chat completion call (generate_code.py 238-241): the system
\* message and the parts of the user message.
Messages(system, user) == [system |-> system, user |-> user]

NoMessages == Messages(<<>>, <<>>)

OrchIdle ==
    /\ pc = "idle" /\ api_key = FALSE /\ request = NoRequest
    /\ system_prompt = <<>> /\ user_message = <<>> /\ html_code = None
    /\ last_response = NoResponse
    /\ validation = NoValidation /\ first_validation = NoValidation
    /\ repair_message = <<>> /\ sent = NoMessages
    /\ result = [kind |-> "pending", status_code |-> 0,
                 html |-> None, validation |-> NoValidation]
    /\ gen_calls = 0 /\ val_calls = 0 /\ repair_calls = 0

GenIdle == g_pc = "idle" /\ g_response = GenError /\ g_return = Returned(None)

ValIdle ==
    /\ v_pc = "idle" /\ v_html = <<>> /\ v_market = ""
    /\ v_env = Env(FALSE, JudgeFailure("error")) /\ v_return = Returned(NoValidation)

AssetIdle == a_pc = "idle" /\ a_html = <<>> /\ a_once = None /\ a_twice = None

MsgIdle ==
    /\ m_pc = "idle" /\ m_req = NoRequest /\ m_twin = NoRequest
    /\ m_msg = <<>> /\ m_twin_msg = <<>>

RepIdle ==
    /\ p_pc = "idle" /\ p_missing = JList(<<>>) /\ p_market = ""
    /\ p_return = Returned(NoPrompt)

Runs == {1, 2}

RunsIdle ==
    /\ r_env = FALSE
    /\ r_pc = [r \in Runs |-> "idle"]
    /\ r_request = [r \in Runs |-> NoRequest]
    /\ r_html = [r \in Runs |-> None]
    /\ r_validation = [r \in Runs |-> NoValidation]
    /\ r_result = [r \in Runs |-> [kind |-> "pending", status_code |-> 0,
                                   html |-> None, validation |-> NoValidation]]
    /\ r_gens = [r \in Runs |-> <<>>]
    /\ r_judges = [r \in Runs |-> <<>>]

\* The x-market header of a request: absent, or present with a value.
Header(present, value) == [present |-> present, value |-> value]

RouteInput(header, body_market, production, allowed, credits) ==
    [header |-> header, market |-> body_market, is_production |-> production,
     is_allowed |-> allowed, credits |-> credits]

RouteIdle ==
    /\ t_pc = "idle" /\ t_in = RouteInput(Header(FALSE, ""), "", FALSE, FALSE, "enough")
    /\ t_market = "" /\ t_status = 0 /\ t_calls = 0

LimResult(limited, error) == [limited |-> limited, error |-> error]

LimIdle ==
    /\ l_path = <<>> /\ l_now = 0 /\ l_zset = {} /\ l_expire_at = -1
    /\ l_passed = <<>> /\ l_result = LimResult(FALSE, FALSE) /\ l_requests = 0

UpIdle ==
    /\ u_action = "" /\ u_configured = FALSE /\ u_clock = 0 /\ u_redis = {}
    /\ u_pc = <<>> /\ u_key = <<>> /\ u_count = <<>> /\ u_result = <<>>
    /\ u_allowed = <<>> /\ u_calls = 0

CredIdle ==
    /\ c_configured = FALSE /\ c_action = "" /\ c_start = 0 /\ c_balance = 0
    /\ c_pc = <<>> /\ c_credits = <<>> /\ c_ret = <<>> /\ c_paid = 0

BackIdle == LimIdle /\ UpIdle /\ CredIdle

SvcIdle == RouteIdle /\ BackIdle

OtherIdle == MsgIdle /\ RepIdle /\ RunsIdle /\ SvcIdle

CoreIdle == OrchIdle /\ GenIdle /\ ValIdle /\ AssetIdle

\* ---- _ensure_tailwind_cdn on every markup up to MaxMarkupLen atoms
AssetAlphabet == {"tailwind", "fonts", "<head>", "<HEAD>", "<head lang>", "div"}

AssetInit ==
    /\ a_pc = "input"
    /\ a_html \in StringsUpTo(AssetAlphabet, MaxMarkupLen)
    /\ a_once = None
    /\ a_twice = None
    /\ OrchIdle /\ GenIdle /\ ValIdle /\ OtherIdle

ApplyOnce ==
    /\ a_pc = "input"
    /\ a_once' = ensure_tailwind_cdn(a_html)
    /\ a_pc' = "once"
    /\ UNCHANGED <<a_html, a_twice, orchVars, genVars, valVars, otherVars>>

ApplyTwice ==
    /\ a_pc = "once"
    /\ a_twice' = ensure_tailwind_cdn(a_once)
    /\ a_pc' = "twice"
    /\ UNCHANGED <<a_html, a_once, orchVars, genVars, valVars, otherVars>>

AssetNext == ApplyOnce \/ ApplyTwice

AssetSpec == AssetInit /\ [][AssetNext]_vars

\* ---- _call_ai_generation on every response up to MaxContentLen atoms
GenAlphabet == {"fence", "html", "nl", "div", "<head>", "tailwind"}

GenInit ==
    /\ g_pc = "call"
    /\ g_response \in {GenError, GenNone}
                        \cup {GenText(c) : c \in StringsUpTo(GenAlphabet, MaxContentLen)}
    /\ g_return = Returned(None)
    /\ OrchIdle /\ ValIdle /\ AssetIdle /\ OtherIdle

CallGeneration ==
    /\ g_pc = "call"
    /\ g_return' = call_ai_generation(g_response)
    /\ g_pc' = "returned"
    /\ UNCHANGED <<g_response, orchVars, valVars, assetVars, otherVars>>

GenNext == CallGeneration

GenSpec == GenInit /\ [][GenNext]_vars

\* ---- validate_website on every markup up to MaxPageLen atoms
PageAlphabet == {"page", "nofooter", "FOOTER", "div", "noopener", "unavailable"}

ValInit ==
    /\ v_pc = "call"
    /\ v_html \in StringsUpTo(PageAlphabet, MaxPageLen)
    /\ v_market \in Markets
    /\ v_env \in {Env(key, judge) : key \in BOOLEAN, judge \in JudgeResponses}
    /\ v_return = Returned(NoValidation)
    /\ OrchIdle /\ GenIdle /\ AssetIdle /\ OtherIdle

CallValidate ==
    /\ v_pc = "call"
    /\ v_return' = validate_website(v_html, v_market, v_env)
    /\ v_pc' = "returned"
    /\ UNCHANGED <<v_html, v_market, v_env, orchVars, genVars, assetVars, otherVars>>

ValNext == CallValidate

ValidatorSpec == ValInit /\ [][ValNext]_vars

\* ---- the user message of generate_website_code, for two requests
ImageUrls(n) == [i \in 1..n |-> ToString(i)]

\* Every combination of the optional fields, each absent or given.
FieldRequests ==
    { Request(market, number, message, ImageUrls(n), map, voice, booking, mail, <<>>) :
        market \in Markets,
        number \in {<<>>, <<"+9199">>},
        message \in {<<>>, <<"Hi", " ", "there">>},
        n \in 0..MaxImages,
        map \in {<<>>, <<"maps/x">>},
        voice \in {<<>>, <<"Bold">>},
        booking \in {<<>>, <<"cal.com/x">>},
        mail \in {<<>>, <<"a@b.c">>} }

\* The requests that agree with req in every field but those that the arguments
\* of generate_website_code document for the other market (lines 149-155).
OtherMarketTwins(req) ==
    IF req.market = "IN"
    THEN { [req EXCEPT !.brand_voice = voice, !.booking_link = booking, !.email = mail] :
             voice \in {<<>>, <<"Bold">>},
             booking \in {<<>>, <<"cal.com/x">>},
             mail \in {<<>>, <<"a@b.c">>} }
    ELSE { [req EXCEPT !.whatsapp_number = number, !.whatsapp_message = message,
                       !.user_images = ImageUrls(n), !.google_map_link = map] :
             number \in {<<>>, <<"+9199">>},
             message \in {<<>>, <<"Hi", " ", "there">>},
             n \in 0..MaxImages,
             map \in {<<>>, <<"maps/x">>} }

MsgInit ==
    /\ m_pc = "compose"
    /\ m_req \in FieldRequests
    /\ m_twin \in OtherMarketTwins(m_req)
    /\ m_msg = <<>> /\ m_twin_msg = <<>>
    /\ CoreIdle /\ RepIdle /\ RunsIdle /\ SvcIdle

ComposeBoth ==
    /\ m_pc = "compose"
    /\ m_msg' = compose_user_message(m_req)
    /\ m_twin_msg' = compose_user_message(m_twin)
    /\ m_pc' = "composed"
    /\ UNCHANGED <<m_req, m_twin, coreVars, repVars, runVars, svcVars>>

MsgNext == ComposeBoth

MsgSpec == MsgInit /\ [][MsgNext]_vars

\* ---- generate_repair_prompt on what validate_website can hand over
SectionNames ==
    {MANDATORY_SECTIONS("IN")[i] : i \in 1..Len(MANDATORY_SECTIONS("IN"))}
    \cup {MANDATORY_SECTIONS("GLOBAL")[i] : i \in 1..Len(MANDATORY_SECTIONS("GLOBAL"))}
    \cup {"sidebar"}

\* The values of result["missing_sections"]: a list of section names, of the
\* checklist or not, and the other JSON values a judge response can hold there.
MissingValues ==
    {PyList(names) : names \in StringsUpTo(SectionNames, MaxMissing)}
    \cup {JList(<<Num("7")>>), JNumber}

RepInit ==
    /\ p_pc = "call"
    /\ p_missing \in MissingValues
    /\ p_market \in Markets
    /\ p_return = Returned(NoPrompt)
    /\ CoreIdle /\ MsgIdle /\ RunsIdle /\ SvcIdle

CallRepair ==
    /\ p_pc = "call"
    /\ p_return' = generate_repair_prompt(p_missing, p_market)
    /\ p_pc' = "returned"
    /\ UNCHANGED <<p_missing, p_market, coreVars, msgVars, runVars, svcVars>>

RepNext == CallRepair

RepSpec == RepInit /\ [][RepNext]_vars

\* ---- generate_website_code, one run
Outcome(kind, code, html, val) ==
    [kind |-> kind, status_code |-> code, html |-> html, validation |-> val]

Init ==
    /\ pc = "compose"
    /\ api_key \in BOOLEAN
    /\ request \in Requests
    /\ system_prompt = <<>> /\ user_message = <<>> /\ html_code = None
    /\ last_response = NoResponse
    /\ validation = NoValidation /\ first_validation = NoValidation
    /\ repair_message = <<>> /\ sent = NoMessages
    /\ result = Outcome("pending", 0, None, NoValidation)
    /\ gen_calls = 0 /\ val_calls = 0 /\ repair_calls = 0
    /\ GenIdle /\ ValIdle /\ AssetIdle /\ OtherIdle

\* generate_code.py 164-205
Compose ==
    /\ pc = "compose"
    /\ system_prompt' = compose_system_prompt(request)
    /\ user_message' = compose_user_message(request)
    /\ pc' = "generate"
    /\ UNCHANGED <<api_key, request, sent, last_response, html_code, validation,
                   first_validation, repair_message, result, gen_calls, val_calls,
                   repair_calls, genVars, valVars, assetVars, otherVars>>

\* faulty variant: the repair decision looks at valid only
needs_repair_ignores_missing(v) == ~Truthy(v.valid)

\* faulty variant: the repair decision looks at missing_sections only
needs_repair_ignores_valid(v) == Truthy(v.missing_sections)

\* line 214: not validation["valid"] and validation["missing_sections"]
needs_repair(v) == ~Truthy(v.valid) /\ Truthy(v.missing_sections)

\* faulty variant: a failed repair call falls back to the markup of the first attempt
GenerationStep_keeps_first(next_pc) ==
    \E response \in GenResponses :
        LET out == call_ai_generation(response)
        IN  /\ gen_calls' = gen_calls + 1
            /\ last_response' = response
            /\ IF out.raised /\ html_code # None
               THEN /\ pc' = "done"
                    /\ result' = Outcome("return", 0, html_code, validation)
                    /\ UNCHANGED html_code
               ELSE IF out.raised
               THEN /\ pc' = "raised"
                    /\ result' = Outcome(out.exc, out.status_code, None, NoValidation)
                    /\ UNCHANGED html_code
               ELSE /\ pc' = next_pc
                    /\ html_code' = out.value
                    /\ UNCHANGED result

\* One call of _call_ai_generation from generate_website_code: its exception
\* leaves generate_website_code, its value is bound to html_code.
GenerationStep(next_pc) ==
    \E response \in GenResponses :
        LET out == call_ai_generation(response)
        IN  /\ gen_calls' = gen_calls + 1
            /\ last_response' = response
            /\ IF out.raised
               THEN /\ pc' = "raised"
                    /\ result' = Outcome(out.exc, out.status_code, None, NoValidation)
                    /\ UNCHANGED html_code
               ELSE /\ pc' = next_pc
                    /\ html_code' = out.value
                    /\ UNCHANGED result

\* One call of validate_website from generate_website_code.
ValidationStep(next_pc) ==
    \E judge \in JudgeResponses :
        LET out == validate_website(html_code, request.market, Env(api_key, judge))
        IN  /\ val_calls' = val_calls + 1
            /\ IF out.raised
               THEN /\ pc' = "raised"
                    /\ result' = Outcome(out.exc, out.status_code, None, NoValidation)
                    /\ UNCHANGED validation
               ELSE /\ pc' = next_pc
                    /\ validation' = out.value
                    /\ UNCHANGED result

\* line 208
Generate ==
    /\ pc = "generate"
    /\ sent' = Messages(system_prompt, <<user_message>>)
    /\ GenerationStep("validate")
    /\ UNCHANGED <<api_key, request, system_prompt, user_message, validation,
                   first_validation, repair_message, val_calls, repair_calls, genVars,
                   valVars, assetVars, otherVars>>

\* faulty variant: the validation started without waiting for the generation
Validate_before_generation ==
    /\ pc \in {"generate", "validate"}
    /\ ValidationStep("check")
    /\ first_validation' = validation'
    /\ UNCHANGED <<api_key, request, sent, last_response, system_prompt, user_message, html_code,
                   repair_message, gen_calls, repair_calls, genVars, valVars, assetVars, otherVars>>

\* line 211
Validate ==
    /\ pc = "validate"
    /\ ValidationStep("check")
    /\ first_validation' = validation'
    /\ UNCHANGED <<api_key, request, sent, last_response, system_prompt, user_message, html_code,
                   repair_message, gen_calls, repair_calls, genVars, valVars, assetVars, otherVars>>

\* lines 214-219: the repair branch is taken and the repair message is built
BuildRepair ==
    /\ pc = "check"
    /\ needs_repair(validation)
    /\ LET out == generate_repair_prompt(validation.missing_sections, request.market)
       IN  /\ repair_calls' = repair_calls + 1
           /\ IF out.raised
              THEN /\ pc' = "raised"
                   /\ result' = Outcome(out.exc, out.status_code, None, NoValidation)
                   /\ UNCHANGED repair_message
              ELSE /\ pc' = "regenerate"
                   /\ repair_message' = <<user_message, out.value>>
                   /\ UNCHANGED result
    /\ UNCHANGED <<api_key, request, sent, last_response, system_prompt, user_message, html_code,
                   validation, first_validation, gen_calls, val_calls, genVars, valVars,
                   assetVars, otherVars>>

\* faulty variant: the repair prompt sent in place of the user message
Regenerate_repair_prompt_only ==
    /\ pc = "regenerate"
    /\ sent' = Messages(system_prompt, <<repair_message[2]>>)
    /\ GenerationStep("revalidate")
    /\ UNCHANGED <<api_key, request, system_prompt, user_message, validation,
                   first_validation, repair_message, val_calls, repair_calls, genVars,
                   valVars, assetVars, otherVars>>

\* line 222
Regenerate ==
    /\ pc = "regenerate"
    /\ sent' = Messages(system_prompt, repair_message)
    /\ GenerationStep("revalidate")
    /\ UNCHANGED <<api_key, request, system_prompt, user_message, validation,
                   first_validation, repair_message, val_calls, repair_calls, genVars,
                   valVars, assetVars, otherVars>>

\* faulty variant: an invalid second result starts another repair cycle
Revalidate_retries ==
    /\ pc = "revalidate"
    /\ ValidationStep("check")
    /\ UNCHANGED <<api_key, request, sent, last_response, system_prompt, user_message, html_code,
                   first_validation, repair_message, gen_calls, repair_calls, genVars,
                   valVars, assetVars, otherVars>>

\* faulty variant: a second result that is still invalid is raised as an error
Revalidate_raises_when_invalid ==
    /\ pc = "revalidate"
    /\ \E judge \in JudgeResponses :
           LET out == validate_website(html_code, request.market, Env(api_key, judge))
           IN  /\ val_calls' = val_calls + 1
                  /\ IF ~Truthy(out.value.valid)
                  THEN /\ pc' = "raised"
                       /\ result' = Outcome("HTTPException", 422, None, NoValidation)
                       /\ UNCHANGED validation
                  ELSE /\ pc' = "return"
                       /\ validation' = out.value
                       /\ UNCHANGED result
    /\ UNCHANGED <<api_key, request, sent, last_response, system_prompt, user_message, html_code,
                   first_validation, repair_message, gen_calls, repair_calls, genVars,
                   valVars, assetVars, otherVars>>

\* line 225
Revalidate ==
    /\ pc = "revalidate"
    /\ ValidationStep("return")
    /\ UNCHANGED <<api_key, request, sent, last_response, system_prompt, user_message, html_code,
                   first_validation, repair_message, gen_calls, repair_calls, genVars,
                   valVars, assetVars, otherVars>>

\* line 230, reached with the repair branch skipped or completed
Return ==
    /\ \/ pc = "check" /\ ~needs_repair(validation)
       \/ pc = "return"
    /\ pc' = "done"
    /\ result' = Outcome("return", 0, html_code, validation)
    /\ UNCHANGED <<api_key, request, sent, last_response, system_prompt, user_message, html_code,
                   validation, first_validation, repair_message, gen_calls, val_calls,
                   repair_calls, genVars, valVars, assetVars, otherVars>>

Next == Compose \/ Generate \/ Validate \/ BuildRepair \/ Regenerate \/ Revalidate \/ Return

Spec == Init /\ [][Next]_vars

\* The run is one sequential call: it takes its next step as long as it has
\* one, every model call returning or raising.
FairSpec == Spec /\ WF_vars(Next)

\* ---- two calls of generate_website_code, their steps interleaved
RunRequests ==
    { Request("IN", <<"+9199">>, <<>>, <<>>, <<>>, <<>>, <<>>, <<>>, <<>>),
      Request("GLOBAL", <<>>, <<>>, <<>>, <<>>, <<"Bold">>, <<>>, <<>>, <<>>) }

RunGenResponses == {GenError, GenText(<<"page">>), GenText(<<"nofooter">>)}

RunJudgeResponses ==
    { JudgeFailure("error"),
      JudgeText(<<"P">>, "object", ValidationResult(JTrue, JList(<<>>), JAbsent, JAbsent)),
      JudgeText(<<"P">>, "object",
                ValidationResult(JFalse, PyList(<<"footer">>), JAbsent, JAbsent)) }

RunsInit ==
    /\ r_env \in BOOLEAN
    /\ r_pc = [r \in Runs |-> "generate"]
    /\ r_request \in [Runs -> RunRequests]
    /\ r_html = [r \in Runs |-> None]
    /\ r_validation = [r \in Runs |-> NoValidation]
    /\ r_result = [r \in Runs |-> Outcome("pending", 0, None, NoValidation)]
    /\ r_gens = [r \in Runs |-> <<>>]
    /\ r_judges = [r \in Runs |-> <<>>]
    /\ CoreIdle /\ MsgIdle /\ RepIdle /\ SvcIdle

\* faulty variant: html_code kept in a module-level variable, one for all calls
RunGenerate_module_level_html(r) ==
    /\ r_pc[r] \in {"generate", "regenerate"}
    /\ \E response \in RunGenResponses :
           LET out == call_ai_generation(response)
           IN  /\ r_gens' = [r_gens EXCEPT ![r] = Append(@, response)]
               /\ IF out.raised
                  THEN /\ r_pc' = [r_pc EXCEPT ![r] = "raised"]
                       /\ r_result' = [r_result EXCEPT ![r] =
                              Outcome(out.exc, out.status_code, None, NoValidation)]
                       /\ UNCHANGED r_html
                  ELSE /\ r_pc' = [r_pc EXCEPT ![r] =
                              IF r_pc[r] = "generate" THEN "validate" ELSE "revalidate"]
                       /\ r_html' = [q \in Runs |-> out.value]
                       /\ UNCHANGED r_result
    /\ UNCHANGED <<r_env, r_request, r_validation, r_judges, coreVars, msgVars, repVars, svcVars>>

\* lines 208 and 222: _call_ai_generation reads the module's client and binds
\* its value to the local html_code of the call
RunGenerate(r) ==
    /\ r_pc[r] \in {"generate", "regenerate"}
    /\ \E response \in RunGenResponses :
           LET out == call_ai_generation(response)
           IN  /\ r_gens' = [r_gens EXCEPT ![r] = Append(@, response)]
               /\ IF out.raised
                  THEN /\ r_pc' = [r_pc EXCEPT ![r] = "raised"]
                       /\ r_result' = [r_result EXCEPT ![r] =
                              Outcome(out.exc, out.status_code, None, NoValidation)]
                       /\ UNCHANGED r_html
                  ELSE /\ r_pc' = [r_pc EXCEPT ![r] =
                              IF r_pc[r] = "generate" THEN "validate" ELSE "revalidate"]
                       /\ r_html' = [r_html EXCEPT ![r] = out.value]
                       /\ UNCHANGED r_result
    /\ UNCHANGED <<r_env, r_request, r_validation, r_judges, coreVars, msgVars, repVars, svcVars>>

\* lines 211 and 225: validate_website reads OPENAI_API_KEY and, with a key,
\* calls the judge through a client of its own
RunValidate(r) ==
    /\ r_pc[r] \in {"validate", "revalidate"}
    /\ \E judge \in (IF r_env THEN RunJudgeResponses ELSE {JudgeFailure("none")}) :
           LET out == validate_website(r_html[r], r_request[r].market, Env(r_env, judge))
           IN  /\ r_judges' = [r_judges EXCEPT ![r] = Append(@, judge)]
               /\ r_validation' = [r_validation EXCEPT ![r] = out.value]
               /\ r_pc' = [r_pc EXCEPT ![r] =
                      IF r_pc[r] = "validate" THEN "check" ELSE "return"]
    /\ UNCHANGED <<r_env, r_request, r_html, r_result, r_gens, coreVars, msgVars, repVars, svcVars>>

\* lines 214-219
RunBuildRepair(r) ==
    /\ r_pc[r] = "check"
    /\ needs_repair(r_validation[r])
    /\ LET out == generate_repair_prompt(r_validation[r].missing_sections,
                                         r_request[r].market)
       IN  IF out.raised
           THEN /\ r_pc' = [r_pc EXCEPT ![r] = "raised"]
                /\ r_result' = [r_result EXCEPT ![r] =
                       Outcome(out.exc, out.status_code, None, NoValidation)]
           ELSE /\ r_pc' = [r_pc EXCEPT ![r] = "regenerate"]
                /\ UNCHANGED r_result
    /\ UNCHANGED <<r_env, r_request, r_html, r_validation, r_gens, r_judges,
                   coreVars, msgVars, repVars, svcVars>>

\* line 230
RunReturn(r) ==
    /\ \/ r_pc[r] = "check" /\ ~needs_repair(r_validation[r])
       \/ r_pc[r] = "return"
    /\ r_pc' = [r_pc EXCEPT ![r] = "done"]
    /\ r_result' = [r_result EXCEPT ![r] = Outcome("return", 0, r_html[r], r_validation[r])]
    /\ UNCHANGED <<r_env, r_request, r_html, r_validation, r_gens, r_judges,
                   coreVars, msgVars, repVars, svcVars>>

RunsNext ==
    \E r \in Runs : RunGenerate(r) \/ RunValidate(r) \/ RunBuildRepair(r) \/ RunReturn(r)

RunsSpec == RunsInit /\ [][RunsNext]_vars

\* ---- the route generate_code, one request
\* str.upper() on a header value
Upper(value) ==
    CASE value = "in" -> "IN"
      [] value = "global" -> "GLOBAL"
      [] OTHER -> value

\* The parameter x_market: Header(default="GLOBAL", alias="x-market")
x_market(header) == IF header.present THEN header.value ELSE "GLOBAL"

RouteInit ==
    /\ t_pc = "rate_limit"
    /\ t_in \in { RouteInput(header, body_market, production, allowed, credits) :
                    header \in {Header(FALSE, "")}
                               \cup {Header(TRUE, v) : v \in {"", "in", "IN", "GLOBAL"}},
                    body_market \in {"GLOBAL", "IN"},
                    production \in BOOLEAN,
                    allowed \in BOOLEAN,
                    credits \in {"enough", "short", "error"} }
    /\ t_market = "" /\ t_status = 0 /\ t_calls = 0
    /\ CoreIdle /\ MsgIdle /\ RepIdle /\ RunsIdle /\ BackIdle

\* faulty variant: the answer of the rate limiter is not looked at
RouteRateLimit_ignored ==
    /\ t_pc = "rate_limit"
    /\ t_pc' = "credits"
    /\ UNCHANGED <<t_in, t_status, t_market, t_calls, coreVars, msgVars, repVars, runVars,
                 backVars>>

\* lines 333-335
RouteRateLimit ==
    /\ t_pc = "rate_limit"
    /\ IF ~t_in.is_allowed
       THEN t_pc' = "responded" /\ t_status' = 429
       ELSE t_pc' = "credits" /\ UNCHANGED t_status
    /\ UNCHANGED <<t_in, t_market, t_calls, coreVars, msgVars, repVars, runVars,
                 backVars>>

\* lines 338-345; an exception of check_credits leaves the route as a 500
RouteCredits ==
    /\ t_pc = "credits"
    /\ IF t_in.is_production /\ t_in.credits = "error"
       THEN t_pc' = "responded" /\ t_status' = 500
       ELSE IF t_in.is_production /\ t_in.credits = "short"
       THEN t_pc' = "responded" /\ t_status' = 402
       ELSE t_pc' = "generate" /\ UNCHANGED t_status
    /\ UNCHANGED <<t_in, t_market, t_calls, coreVars, msgVars, repVars, runVars,
                 backVars>>

\* lines 347-396: the market, the call of generate_website_code, and the
\* response: 200 with the markup, or 500 for whatever the call raises
RouteGenerate ==
    /\ t_pc = "generate"
    /\ t_market' = (IF x_market(t_in.header) # "" THEN Upper(x_market(t_in.header))
                    ELSE t_in.market)
    /\ t_calls' = t_calls + 1
    /\ \E outcome \in {"return", "HTTPException", "Exception"} :
           t_status' = (IF outcome = "return" THEN 200 ELSE 500)
    /\ t_pc' = "responded"
    /\ UNCHANGED <<t_in, coreVars, msgVars, repVars, runVars,
                 backVars>>

RouteNext == RouteRateLimit \/ RouteCredits \/ RouteGenerate

RouteSpec == RouteInit /\ [][RouteNext]_vars

\* ---- RateLimiter (core/rate_limiter.py): the requests of one client on one path
MaxRequests == 4        \* calls of is_rate_limited

\* RATE_LIMITS in dict order, without "default"; an endpoint as its path segments
RATE_LIMITS ==
    << [endpoint |-> <<"api", "generate">>, limit |-> <<5, 60>>],
       [endpoint |-> <<"api", "generate", "async">>, limit |-> <<5, 60>>],
       [endpoint |-> <<"api", "voice", "generate">>, limit |-> <<3, 60>>],
       [endpoint |-> <<"api", "voice", "generate", "async">>, limit |-> <<3, 60>>],
       [endpoint |-> <<"api", "edit">>, limit |-> <<10, 60>>],
       [endpoint |-> <<"api", "redesign">>, limit |-> <<2, 60>>],
       [endpoint |-> <<"api", "publish">>, limit |-> <<5, 60>>],
       [endpoint |-> <<"api", "republish">>, limit |-> <<5, 60>>] >>

\* RATE_LIMITS["default"]
RATE_LIMITS_default == <<30, 60>>

\* path.startswith(endpoint), on whole segments
startswith(path, endpoint) ==
    Len(endpoint) <= Len(path) /\ SubSeq(path, 1, Len(endpoint)) = endpoint

get_rate_limit(path) ==
    LET hits == {i \in 1..Len(RATE_LIMITS) : startswith(path, RATE_LIMITS[i].endpoint)}
    IN IF hits = {} THEN RATE_LIMITS_default
       ELSE RATE_LIMITS[CHOOSE i \in hits : \A j \in hits : i <= j].limit

\* Redis ZADD key {member: score}: a member the set holds already keeps one entry
zadd(zset, member, score) ==
    {e \in zset : e.member # member} \cup {[member |-> member, score |-> score]}

LimInit ==
    /\ l_path \in {<<"api", "redesign">>, <<"api", "voice", "generate", "async">>}
    /\ l_now = 0 /\ l_zset = {} /\ l_expire_at = -1
    /\ l_passed = <<>> /\ l_result = LimResult(FALSE, FALSE) /\ l_requests = 0
    /\ CoreIdle /\ MsgIdle /\ RepIdle /\ RunsIdle /\ RouteIdle /\ UpIdle /\ CredIdle

\* the seconds at which requests arrive: around the start of the clock and
\* around one and two windows later
Instants(window_seconds) ==
    {0, 1, window_seconds - 1, window_seconds, window_seconds + 1, 2 * window_seconds}

\* the clock advances; Redis drops the key when its expiry is reached
LimTick ==
    /\ l_now' \in {t \in Instants(get_rate_limit(l_path)[2]) : t > l_now}
    /\ IF l_expire_at # -1 /\ l_now' >= l_expire_at
       THEN l_zset' = {} /\ l_expire_at' = -1
       ELSE UNCHANGED <<l_zset, l_expire_at>>
    /\ UNCHANGED <<l_path, l_passed, l_result, l_requests, coreVars, msgVars, repVars,
                   runVars, routeVars, upVars, credVars>>

\* lines 80-128: one call; the pipeline is one Redis transaction, which either
\* runs or raises redis.RedisError
is_rate_limited ==
    /\ l_requests < MaxRequests
    /\ l_requests' = l_requests + 1
    /\ \E redis_error \in BOOLEAN :
         LET max_requests == get_rate_limit(l_path)[1]
             window_seconds == get_rate_limit(l_path)[2]
             current_time == l_now
             window_start == current_time - window_seconds
             kept == {e \in l_zset : ~(0 <= e.score /\ e.score <= window_start)}
             request_count == Cardinality(kept)
         IN IF redis_error
            THEN /\ l_result' = LimResult(TRUE, TRUE)
                 /\ UNCHANGED <<l_zset, l_expire_at, l_passed>>
            ELSE /\ l_zset' = zadd(kept, ToString(current_time), current_time)
                 /\ l_expire_at' = current_time + window_seconds
                 /\ l_result' = LimResult(request_count >= max_requests, FALSE)
                 /\ l_passed' = (IF request_count >= max_requests THEN l_passed
                                 ELSE Append(l_passed, current_time))
    /\ UNCHANGED <<l_path, l_now, coreVars, msgVars, repVars, runVars, routeVars, upVars,
                   credVars>>

LimNext == LimTick \/ is_rate_limited

LimSpec == LimInit /\ [][LimNext]_vars

\* ---- UpstashRateLimiter (core/rate_limit.py): concurrent calls of
\* check_action_limit for one user and one action. Time is counted in window
\* buckets, now // window_seconds.
Callers == {1, 2}
MaxBucket == 2          \* last window bucket of the clock
MaxUpCalls == 5         \* calls of check_action_limit

DEFAULT_RATE_LIMITS ==
    [api |-> [limit |-> 60, window |-> 60],
     generate |-> [limit |-> 5, window |-> 3600],
     voice |-> [limit |-> 10, window |-> 3600],
     redesign |-> [limit |-> 3, window |-> 86400],
     publish |-> [limit |-> 20, window |-> 3600],
     edit |-> [limit |-> 30, window |-> 3600]]

\* self.RATE_LIMITS.get(action, self.RATE_LIMITS["api"]) with the default limits
action_config(action) ==
    IF action \in DOMAIN DEFAULT_RATE_LIMITS THEN DEFAULT_RATE_LIMITS[action]
    ELSE DEFAULT_RATE_LIMITS["api"]

\* the return of check_action_limit, and what decided it
UpResult(is_allowed, by) == [is_allowed |-> is_allowed, by |-> by]

UpInit ==
    /\ u_action \in {"redesign", "generate", "export"}
    /\ u_configured \in BOOLEAN
    /\ u_clock = 0 /\ u_redis = {}
    /\ u_pc = [p \in Callers |-> "idle"]
    /\ u_key = [p \in Callers |-> 0]
    /\ u_count = [p \in Callers |-> 0]
    /\ u_result = [p \in Callers |-> UpResult(FALSE, "none")]
    /\ u_allowed = [b \in 0..MaxBucket |-> 0]
    /\ u_calls = 0
    /\ CoreIdle /\ MsgIdle /\ RepIdle /\ RunsIdle /\ RouteIdle /\ LimIdle /\ CredIdle

\* the return of is_rate_limited with the count of INCR (130-133) and of
\* check_action_limit (162-168)
UpReturn(p, count) ==
    LET is_limited == count > action_config(u_action).limit
    IN /\ u_result' = [u_result EXCEPT ![p] = UpResult(~is_limited, "count")]
       /\ u_allowed' = (IF is_limited THEN u_allowed
                        ELSE [u_allowed EXCEPT ![u_key[p]] = @ + 1])
       /\ u_pc' = [u_pc EXCEPT ![p] = "idle"]

\* the return True, 0, 0 of lines 117 and 138, and check_action_limit's answer to it
UpDeny(p, by) ==
    /\ u_result' = [u_result EXCEPT ![p] = UpResult(FALSE, by)]
    /\ u_pc' = [u_pc EXCEPT ![p] = "idle"]
    /\ UNCHANGED u_allowed

\* lines 155-160, 114-121: the call up to the window key
UpCall(p) ==
    /\ u_pc[p] = "idle" /\ u_calls < MaxUpCalls
    /\ u_calls' = u_calls + 1
    /\ IF ~u_configured
       THEN UpDeny(p, "not_configured") /\ UNCHANGED u_key
       ELSE /\ u_key' = [u_key EXCEPT ![p] = u_clock]
            /\ u_pc' = [u_pc EXCEPT ![p] = "incr"]
            /\ UNCHANGED <<u_result, u_allowed>>
    /\ UNCHANGED <<u_action, u_configured, u_clock, u_redis, u_count, coreVars, msgVars,
                   repVars, runVars, routeVars, limVars, credVars>>

\* line 124: INCR, atomic in Redis, creating the key at 1; or the call raises
UpIncr(p) ==
    /\ u_pc[p] = "incr"
    /\ \E raises \in BOOLEAN :
         IF raises
         THEN UpDeny(p, "error") /\ UNCHANGED <<u_redis, u_count>>
         ELSE LET held == {k \in u_redis : k.bucket = u_key[p]}
                  count == IF held = {} THEN 1 ELSE (CHOOSE k \in held : TRUE).count + 1
                  ttl == IF held = {} THEN -1 ELSE (CHOOSE k \in held : TRUE).ttl
              IN /\ u_redis' = (u_redis \ held)
                                 \cup {[bucket |-> u_key[p], count |-> count, ttl |-> ttl]}
                 /\ u_count' = [u_count EXCEPT ![p] = count]
                 /\ IF count = 1
                    THEN /\ u_pc' = [u_pc EXCEPT ![p] = "expire"]
                         /\ UNCHANGED <<u_result, u_allowed>>
                    ELSE UpReturn(p, count)
    /\ UNCHANGED <<u_action, u_configured, u_clock, u_key, u_calls, coreVars, msgVars,
                   repVars, runVars, routeVars, limVars, credVars>>

\* lines 127-133: EXPIRE window_seconds after the first INCR, or the call raises
UpExpire(p) ==
    /\ u_pc[p] = "expire"
    /\ \E raises \in BOOLEAN :
         IF raises
         THEN UpDeny(p, "error") /\ UNCHANGED u_redis
         ELSE /\ u_redis' = {IF k.bucket = u_key[p] THEN [k EXCEPT !.ttl = u_clock] ELSE k :
                               k \in u_redis}
              /\ UpReturn(p, u_count[p])
    /\ UNCHANGED <<u_action, u_configured, u_clock, u_key, u_count, u_calls, coreVars,
                   msgVars, repVars, runVars, routeVars, limVars, credVars>>

\* Redis drops a key window_seconds after its EXPIRE: at some moment of the
\* bucket that follows the one of the EXPIRE
UpKeyExpires ==
    /\ \E k \in u_redis :
           /\ k.ttl # -1 /\ u_clock > k.ttl
           /\ u_redis' = u_redis \ {k}
    /\ UNCHANGED <<u_action, u_configured, u_clock, u_pc, u_key, u_count, u_result,
                   u_allowed, u_calls, coreVars, msgVars, repVars, runVars, routeVars,
                   limVars, credVars>>

\* the clock enters the next bucket; the keys whose time has run out are gone
UpTick ==
    /\ u_clock < MaxBucket
    /\ u_clock' = u_clock + 1
    /\ u_redis' = {k \in u_redis : k.ttl = -1 \/ k.ttl + 1 >= u_clock'}
    /\ UNCHANGED <<u_action, u_configured, u_pc, u_key, u_count, u_result, u_allowed,
                   u_calls, coreVars, msgVars, repVars, runVars, routeVars, limVars,
                   credVars>>

UpNext ==
    \/ \E p \in Callers : UpCall(p) \/ UpIncr(p) \/ UpExpire(p)
    \/ UpKeyExpires
    \/ UpTick

UpSpec == UpInit /\ [][UpNext]_vars

\* ---- SupabaseService.deduct_credits (services/supabase.py): calls for one
\* user and one action from concurrent workers on the one credits table
MaxCredCalls == 3       \* calls of deduct_credits that returned True or are under way

CREDIT_COSTS ==
    [generate |-> 10, voice_generate |-> 15, edit |-> 2, redesign |-> 20, publish |-> 30]

\* CREDIT_COSTS.get(action, 0)
cost_of(action) == IF action \in DOMAIN CREDIT_COSTS THEN CREDIT_COSTS[action] ELSE 0

CredInit ==
    /\ c_configured \in BOOLEAN
    /\ c_action \in {"generate", "edit", "preview"}
    /\ c_start \in {0, 10, 25}
    /\ c_balance = (IF c_configured THEN c_start ELSE 0)
    /\ c_pc = [p \in Callers |-> "idle"]
    /\ c_credits = [p \in Callers |-> 0]
    /\ c_ret = [p \in Callers |-> "none"]
    /\ c_paid = 0
    /\ CoreIdle /\ MsgIdle /\ RepIdle /\ RunsIdle /\ RouteIdle /\ LimIdle /\ UpIdle

\* the call ends: it returns True or False, or raises
CredEnd(p, ret) ==
    /\ c_ret' = [c_ret EXCEPT ![p] = ret]
    /\ c_pc' = [c_pc EXCEPT ![p] = "idle"]
    /\ c_paid' = (IF ret = "True" THEN c_paid + 1 ELSE c_paid)

\* lines 607-627: the early returns and the database function deduct_credits,
\* which takes the amount off the balance in one transaction when the balance
\* covers it, and answers whether it did; or the rpc raises
CredCall(p) ==
    /\ c_pc[p] = "idle"
    /\ c_paid + Cardinality({q \in Callers : c_pc[q] # "idle"}) < MaxCredCalls
    /\ IF ~c_configured \/ cost_of(c_action) = 0
       THEN CredEnd(p, "True") /\ UNCHANGED c_balance
       ELSE \E rpc_raises \in BOOLEAN :
              IF rpc_raises
              THEN /\ c_pc' = [c_pc EXCEPT ![p] = "read"]
                   /\ c_ret' = [c_ret EXCEPT ![p] = "none"]
                   /\ UNCHANGED <<c_balance, c_paid>>
              ELSE IF c_balance >= cost_of(c_action)
              THEN CredEnd(p, "True") /\ c_balance' = c_balance - cost_of(c_action)
              ELSE CredEnd(p, "False") /\ UNCHANGED c_balance
    /\ UNCHANGED <<c_configured, c_action, c_start, c_credits, coreVars, msgVars, repVars,
                   runVars, routeVars, limVars, upVars>>

\* lines 632-634: get_user_credits (551-571) and the test of the balance read
CredRead(p) ==
    /\ c_pc[p] = "read"
    /\ \E raises \in BOOLEAN :
         IF raises
         THEN CredEnd(p, "raised") /\ UNCHANGED c_credits
         ELSE /\ c_credits' = [c_credits EXCEPT ![p] = c_balance]
              /\ IF c_balance < cost_of(c_action)
                 THEN CredEnd(p, "False")
                 ELSE /\ c_pc' = [c_pc EXCEPT ![p] = "update"]
                      /\ UNCHANGED <<c_ret, c_paid>>
    /\ UNCHANGED <<c_configured, c_action, c_start, c_balance, coreVars, msgVars, repVars,
                   runVars, routeVars, limVars, upVars>>

\* lines 636-645: the update of the row with the balance computed from the read
CredUpdate(p) ==
    /\ c_pc[p] = "update"
    /\ \E raises \in BOOLEAN :
         IF raises
         THEN CredEnd(p, "raised") /\ UNCHANGED c_balance
         ELSE /\ c_balance' = c_credits[p] - cost_of(c_action)
              /\ c_pc' = [c_pc EXCEPT ![p] = "insert"]
              /\ UNCHANGED <<c_ret, c_paid>>
    /\ UNCHANGED <<c_configured, c_action, c_start, c_credits, coreVars, msgVars, repVars,
                   runVars, routeVars, limVars, upVars>>

\* lines 647-656: the transaction log and return True
CredInsert(p) ==
    /\ c_pc[p] = "insert"
    /\ \E raises \in BOOLEAN : CredEnd(p, IF raises THEN "raised" ELSE "True")
    /\ UNCHANGED <<c_configured, c_action, c_start, c_balance, c_credits, coreVars, msgVars,
                   repVars, runVars, routeVars, limVars, upVars>>

CredNext == \E p \in Callers : CredCall(p) \/ CredRead(p) \/ CredUpdate(p) \/ CredInsert(p)

CredSpec == CredInit /\ [][CredNext]_vars

\* ------------------------------------------------------------------ claims
\* C1: in one run of generate_website_code, _call_ai_generation is called at most
\* twice and validate_website at most twice, whatever the validation results are.
C1_BoundedRepair == gen_calls <= 2 /\ val_calls <= 2

\* a run that made both generation calls and both validation calls and returned
C1_Witness == pc = "done" /\ gen_calls = 2 /\ val_calls = 2

\* C2: when the first validation returns valid = true, the run makes exactly one
\* generation call and one validation call and never builds a repair prompt.
C2_NoRegenerationWhenValid ==
    first_validation.valid = JTrue =>
        /\ gen_calls = 1 /\ val_calls = 1 /\ repair_calls = 0
        /\ pc \in {"check", "done"}
        /\ pc = "done" => result = Outcome("return", 0, html_code, first_validation)

\* a finished run whose first validation said valid = true and still listed a
\* missing section
C2_Witness ==
    /\ pc = "done" /\ first_validation.valid = JTrue
    /\ Truthy(first_validation.missing_sections)

\* The items of a list value, as a set.
ItemSet(v) == {v.items[i] : i \in 1..Len(v.items)}

Partitions(val, mandatory) ==
    /\ val.missing_sections.type = "list" /\ val.found_sections.type = "list"
    /\ ItemSet(val.missing_sections) \cap ItemSet(val.found_sections) = {}
    /\ ItemSet(val.missing_sections) \cup ItemSet(val.found_sections)
           = {Str(mandatory[i]) : i \in 1..Len(mandatory)}

\* C3: for every markup and market, missing_sections and found_sections of the
\* result of validate_website partition the market's mandatory section list,
\* on the judge path and on the keyword fallback path.
C3_Partition ==
    v_pc = "returned" => Partitions(v_return.value, MANDATORY_SECTIONS(v_market))

\* Judge texts that json.loads rejects after the cleanup of validator.py 91-95.
UnparsableTexts == { <<"fence">>, <<"json", "P">>, <<"P", "junk">>, <<"junk">>, <<>> }

JudgeUnusable(env) ==
    \/ ~env.api_key
    \/ env.judge.kind \in {"error", "timeout", "none"}
    \/ env.judge.kind = "text" /\ env.judge.content \in UnparsableTexts
    \/ env.judge.kind = "text" /\ env.judge.shape # "object"

\* C4: validate_website always returns a result and never raises; with no API
\* key, a judge call that errors or times out, or a response that cannot be
\* parsed, the result is that of the keyword fallback, for every markup (the
\* empty one included) and every market.
C4_ValidatorNeverRaises ==
    v_pc = "returned" =>
        /\ ~v_return.raised
        /\ JudgeUnusable(v_env) =>
               /\ v_return.value = fallback_validation(v_html, v_market)
               /\ v_return.value.valid \in {JTrue, JFalse}
               /\ Partitions(v_return.value, MANDATORY_SECTIONS(v_market))

\* the empty markup, with a key, and a judge response that does not parse
C4_Witness ==
    /\ v_pc = "returned" /\ v_html = <<>> /\ v_env.api_key
    /\ v_env.judge.kind = "text" /\ v_env.judge.content = <<"P", "junk">>
    /\ ~v_return.raised /\ v_return.value.valid = JFalse

\* C5: the only failures that reach the caller of generate_website_code are
\* failures of a generation call; for every outcome of the judge model the run
\* ends by returning markup and a validation result.
C5_OnlyGenerationFailures ==
    pc = "raised" => result.kind = "HTTPException" /\ last_response.kind \in {"error", "none"}

\* C6: when the repair generation succeeds, the run returns the regenerated
\* markup with the result of the second validation, valid or not, and does not
\* raise.
C6_SecondAttemptReturned ==
    [][ /\ (pc = "regenerate" /\ last_response'.kind = "text") =>
              /\ pc' = "revalidate"
              /\ html_code' = call_ai_generation(last_response').value
        /\ pc = "revalidate" =>
              /\ pc' = "return"
              /\ html_code' = html_code
              /\ \E judge \in JudgeResponses :
                     validation' = validate_website(html_code, request.market,
                                                    Env(api_key, judge)).value
        /\ pc = "return" =>
              /\ pc' = "done"
              /\ result' = Outcome("return", 0, html_code, validation) ]_vars

\* a run that returned after the repair cycle with a result that is still invalid
C6_Witness ==
    /\ pc = "done" /\ gen_calls = 2 /\ val_calls = 2
    /\ result.kind = "return" /\ result.html = html_code
    /\ needs_repair(result.validation)

\* C7: when a generation call errors, the first or the repair call, the run
\* fails with the generation failure (HTTP 500) and returns no markup; a failed
\* repair call does not return the markup of the first attempt.
C7_GenerationFailureIsFatal ==
    last_response.kind \in {"error", "none"} =>
        /\ pc = "raised"
        /\ result = Outcome("HTTPException", 500, None, NoValidation)

\* the repair call failed while the markup of the first attempt was at hand
C7_Witness ==
    /\ pc = "raised" /\ gen_calls = 2 /\ last_response.kind = "error"
    /\ html_code # None /\ result.html = None

\* C8: a generation call whose response has empty content fails with a
\* generation error and returns no markup.
C8_EmptyContentFails ==
    (g_pc = "returned" /\ g_response.kind = "text" /\ g_response.content = <<>>) =>
        g_return.raised

\* C9: _ensure_tailwind_cdn is idempotent, and it never removes the framework
\* reference from markup that has it.
C9_Idempotent ==
    /\ a_pc = "twice" => a_twice = a_once
    /\ a_pc \in {"once", "twice"} => Count(a_once, "tailwind") >= Count(a_html, "tailwind")
    /\ a_pc = "twice" => Count(a_twice, "tailwind") >= Count(a_once, "tailwind")

\* applied twice to markup with <HEAD> and no framework reference: the first
\* application injected, the second changed nothing
C9_Witness ==
    /\ a_pc = "twice" /\ Contains(a_html, "<HEAD>") /\ ~Contains(a_html, "tailwind")
    /\ a_once # a_html /\ a_twice = a_once

HeadOpenings(s) == {i \in 1..Len(s) : s[i] \in {"<head>", "<HEAD>", "<head lang>"}}

\* C11: for every input, the output of _ensure_tailwind_cdn has exactly one head
\* region, and that region holds the framework reference and the font links;
\* also for input whose opening head tag carries attributes and for input with
\* no head but with the framework reference.
C11_ExactlyOneHead ==
    a_pc \in {"once", "twice"} =>
        /\ Cardinality(HeadOpenings(a_once)) = 1
        /\ \A h \in HeadOpenings(a_once) :
               /\ \E i \in (h + 1)..Len(a_once) : a_once[i] = "tailwind"
               /\ \E i \in (h + 1)..Len(a_once) : a_once[i] = "fonts"

C13_FragmentWrapped ==
    (a_pc \in {"once", "twice"} /\ HeadOpenings(a_html) = {} /\ ~Contains(a_html, "tailwind")) =>
        /\ a_once[1] = "doctype"
        /\ Cardinality(HeadOpenings(a_once)) = 1
        /\ \E h \in HeadOpenings(a_once), c, b, e \in 1..Len(a_once) :
               /\ h < c /\ c < b /\ b < e
               /\ a_once[c] = "</head>" /\ a_once[b] = "<body>" /\ a_once[e] = "</body>"
               /\ \E i \in (h + 1)..(c - 1) : a_once[i] = "tailwind"
               /\ \E i \in (h + 1)..(c - 1) : a_once[i] = "fonts"
               /\ SubSeq(a_once, b + 1, e - 1) = a_html

\* a bare fragment was wrapped
C13_Witness ==
    /\ a_pc = "once" /\ a_html = <<"div", "div">>
    /\ a_once[1] = "doctype" /\ Len(a_once) = Len(a_html) + Len(skeleton_open) + 1

\* The label of every line of a user message.
Labels(msg) == {msg[i].label : i \in 1..Len(msg)}

\* C14: the user message of a GLOBAL request does not depend on the WhatsApp
\* number and message, the user images and the map link, and the user message
\* of an IN request does not depend on the brand voice, the booking link and the
\* email: two requests that differ only in the fields of the other market get
\* the same user message.
C14_MarketFieldIsolation ==
    m_pc = "composed" =>
        /\ m_msg = m_twin_msg
        /\ m_req.market = "IN" =>
               Labels(m_msg) \cap {"- Brand Voice:", "- Booking Link:", "- Contact Email:"} = {}
        /\ m_req.market # "IN" =>
               Labels(m_msg) \cap {"- WhatsApp Number:", "- WhatsApp Message (URL encoded):",
                                   "USER IMAGES PROVIDED:", "- Google Maps Link:"} = {}

\* a GLOBAL request with a number, images and a map link, and one with none of
\* them, got the same message, which names the booking link
C14_Witness ==
    /\ m_pc = "composed" /\ m_req.market = "GLOBAL"
    /\ Given(m_req.whatsapp_number) /\ Len(m_req.user_images) = 4
    /\ Given(m_req.google_map_link) /\ ~Given(m_twin.whatsapp_number)
    /\ m_twin.user_images = <<>> /\ m_req.booking_link = <<"cal.com/x">>
    /\ "- Booking Link:" \in Labels(m_msg) /\ m_msg = m_twin_msg

\* One leading fence, with its language tag when it has one, and one trailing
\* fence taken off; white space around the content is not counted as content.
Unfenced(content) ==
    LET c == Strip(content)
        a == IF StartsWith(c, <<"fence", "html">>) THEN DropFirst(c, 2)
             ELSE IF StartsWith(c, <<"fence">>) THEN DropFirst(c, 1)
             ELSE c
        b == IF EndsWith(a, <<"fence">>) THEN DropLast(a, 1) ELSE a
    IN  Strip(b)

\* C15: the cleanup of a generation response removes exactly one leading code
\* fence, with or without a language tag, and exactly one trailing fence, and
\* keeps the rest of the content; a response with no fence is left as it is.
C15_OneFenceEachEnd ==
    (g_pc = "returned" /\ g_response.kind = "text") =>
        /\ ~g_return.raised
        /\ g_return.value = ensure_tailwind_cdn(Unfenced(g_response.content))

\* Markup with a <nav> or <header> tag: the atoms whose text has one.
HasNavOrHeaderTag(html) == \E i \in 1..Len(html) : html[i] \in {"page", "nofooter"}

NavbarAndHoursMissing(val) ==
    /\ val.valid = JFalse
    /\ val.missing_sections.type = "list"
    /\ {Str("sticky navbar"), Str("business hours")} \subseteq ItemSet(val.missing_sections)

\* C16, as claimed: for the IN market the keyword fallback, on markup with no
\* nav or header tag and with neither "hours" nor "timing" in it, returns
\* valid = false with "sticky navbar" and "business hours" among the missing
\* sections.
C16_NoTagsNoHoursTiming ==
    ( /\ v_pc = "returned" /\ v_market = "IN" /\ ~v_env.api_key
      /\ ~HasNavOrHeaderTag(v_html)
      /\ ~HasKeyword(Lower(v_html), "hours") /\ ~HasKeyword(Lower(v_html), "timing") )
        => NavbarAndHoursMissing(v_return.value)

\* C16, amended: the same result for markup whose lowercased text holds none of
\* nav, navbar, header, hours, timing, open and schedule.
C16_NoNavbarNoHoursKeyword ==
    ( /\ v_pc = "returned" /\ v_market = "IN" /\ ~v_env.api_key
      /\ \A kw \in {"nav", "navbar", "header", "hours", "timing", "open", "schedule"} :
             ~HasKeyword(Lower(v_html), kw) )
        => NavbarAndHoursMissing(v_return.value)

\* markup with a footer only, IN market, no key: navbar and hours reported missing
C16_Witness ==
    /\ v_pc = "returned" /\ v_market = "IN" /\ ~v_env.api_key
    /\ v_html = <<"FOOTER", "div">>
    /\ NavbarAndHoursMissing(v_return.value)
    /\ Str("footer") \in ItemSet(v_return.value.found_sections)

\* The words of the pattern that a requirement text belongs to.
PatternWords(requirement) ==
    CASE requirement = "NAVBAR" -> {"navbar"}
      [] requirement \in {"HERO whatsapp", "HERO booking"} -> {"hero"}
      [] requirement = "SERVICES" -> {"service"}
      [] requirement = "ABOUT" -> {"about", "credibility"}
      [] requirement = "TESTIMONIALS" -> {"testimonial", "social proof"}
      [] requirement = "CONTACT" -> {"contact", "location"}
      [] requirement = "HOURS" -> {"hours"}
      [] requirement = "STICKY MOBILE FOOTER" -> {"sticky mobile"}
      [] requirement = "BOOKING CTA" -> {"booking", "cta"}
      [] requirement = "FOOTER" -> {"footer"}
      [] OTHER -> {}

\* C17: generate_repair_prompt never fails and emits requirement text only for
\* the sections passed as missing: a name that matches a pattern yields a
\* requirement of a pattern it matches, a name that matches none yields no
\* text, and no requirement appears for a section that is not in the list; for
\* ["footer"] under GLOBAL the footer requirement and nothing else.
C17_NeverFailsOnlyListed ==
    p_pc = "returned" =>
        /\ ~p_return.raised
        /\ LET names == p_missing.items
               reqs == p_return.value.requirements
               matching == {j \in 1..Len(names) : SectionWords(names[j].s) # {}}
           IN  /\ p_return.value.sections_list = names
               /\ Len(reqs) = Cardinality(matching)
               /\ \A i \in 1..Len(reqs) :
                      \E j \in matching : PatternWords(reqs[i]) \cap SectionWords(names[j].s) # {}
               /\ \A j \in matching :
                      \E i \in 1..Len(reqs) :
                          PatternWords(reqs[i]) \cap SectionWords(names[j].s) # {}
               /\ (p_missing = PyList(<<"footer">>) /\ p_market = "GLOBAL") => reqs = <<"FOOTER">>

\* The market a run is to apply: IN for "IN", GLOBAL for every other value.
Applied(market) == IF market = "IN" THEN "IN" ELSE "GLOBAL"

INLabels ==
    {"- WhatsApp Number:", "- WhatsApp Message (URL encoded):", "USER IMAGES PROVIDED:",
     "- Google Maps Link:"}

GLOBALLabels == {"- Brand Voice:", "- Booking Link:", "- Contact Email:"}

\* C18: every market value other than "IN" is treated as GLOBAL by every step
\* of a run, and "IN" as IN by every step: the system prompt, the block of the
\* user message, the checklist of the judge prompt and of the keyword fallback,
\* and the hero requirement of the repair prompt all follow the same market.
C18_OneMarketPerRun ==
    LET market == Applied(request.market)
        as_applied == [request EXCEPT !.market = market]
    IN  /\ pc \notin {"idle", "compose"} =>
               /\ system_prompt = compose_system_prompt(as_applied)
               /\ system_prompt[1] = (IF market = "IN" THEN "india_system_prompt.txt"
                                      ELSE "global_system_prompt.txt")
               /\ user_message = compose_user_message(as_applied)
               /\ Labels(user_message) \cap (IF market = "IN" THEN GLOBALLabels ELSE INLabels) = {}
        /\ (api_key /\ val_calls >= 1) =>
               MANDATORY_SECTIONS(request.market) = MANDATORY_SECTIONS(market)
        /\ (~api_key /\ pc \in {"check", "return", "done"}) =>
               /\ validation = fallback_validation(html_code, market)
               /\ Partitions(validation, MANDATORY_SECTIONS(market))
               /\ (Str("business hours") \in ItemSet(validation.missing_sections)
                     \cup ItemSet(validation.found_sections)) <=> (market = "IN")
        /\ repair_message # <<>> =>
               /\ repair_message[2]
                      = generate_repair_prompt(first_validation.missing_sections, market).value
               /\ \A i \in 1..Len(repair_message[2].requirements) :
                      repair_message[2].requirements[i]
                          # (IF market = "IN" THEN "HERO booking" ELSE "HERO whatsapp")

\* a finished run for market "US" with no key: GLOBAL prompt, GLOBAL lines in
\* the message although the request held a WhatsApp number, and the booking
\* hero in the repair prompt
C18_Witness ==
    /\ pc = "done" /\ request.market = "US" /\ ~api_key
    /\ Given(request.whatsapp_number) /\ repair_calls = 1
    /\ system_prompt[1] = "global_system_prompt.txt"
    /\ "- Booking Link:" \in Labels(user_message)
    /\ \E i \in 1..Len(repair_message[2].requirements) :
           repair_message[2].requirements[i] = "HERO booking"

\* The place of a position in the order of the statements of lines 207-230.
Rank(position) ==
    CASE position = "compose" -> 0
      [] position = "generate" -> 1
      [] position = "validate" -> 2
      [] position = "check" -> 3
      [] position = "regenerate" -> 4
      [] position = "revalidate" -> 5
      [] position = "return" -> 6
      [] OTHER -> 7

\* C19, as claimed: every run ends, and ends with a markup string, after at
\* most four model calls.
C19_EndsWithMarkup ==
    /\ gen_calls + val_calls <= 4
    /\ pc \in {"done", "raised"} => (result.kind = "return" /\ result.html # None)

\* C19, amended: every run ends, by returning a markup string with a validation
\* result or by raising; it makes at most four model calls, and every step moves
\* it forward in the order of its statements, so no position is taken twice.
C19_Terminates ==
    /\ <>(pc \in {"done", "raised"})
    /\ [](gen_calls + val_calls <= 4)
    /\ [](pc = "done" => (result.kind = "return" /\ result.html = html_code
                             /\ html_code # None /\ result.validation = validation))
    /\ [](pc = "raised" => (result.kind # "return" /\ result.html = None))
    /\ [][Rank(pc') > Rank(pc)]_vars

\* a run that made all four model calls and returned markup that passed the
\* second validation
C19_Witness ==
    /\ pc = "done" /\ gen_calls + val_calls = 4
    /\ result.kind = "return" /\ result.html # None /\ ~needs_repair(result.validation)

\* What generate_website_code gives its caller when it runs alone with these
\* arguments, this environment and these responses to its calls, in order.
AloneOutcome(req, key, gens, judges) ==
    LET first == call_ai_generation(gens[1])
        v1 == validate_website(first.value, req.market, Env(key, judges[1])).value
        repair == generate_repair_prompt(v1.missing_sections, req.market)
        second == call_ai_generation(gens[2])
        v2 == validate_website(second.value, req.market, Env(key, judges[2])).value
    IN  IF first.raised THEN Outcome(first.exc, first.status_code, None, NoValidation)
        ELSE IF ~needs_repair(v1) THEN Outcome("return", 0, first.value, v1)
        ELSE IF repair.raised THEN Outcome(repair.exc, repair.status_code, None, NoValidation)
        ELSE IF second.raised THEN Outcome(second.exc, second.status_code, None, NoValidation)
        ELSE Outcome("return", 0, second.value, v2)

\* C20: under every interleaving of two runs, what each run returns, markup and
\* validation result, is what it returns when it runs alone with its own
\* request and the responses to its own calls; a step of one run leaves the
\* locals of the other as they are, and no step writes what both read.
C20_RunsDoNotInterfere ==
    /\ [](\A r \in Runs :
              r_pc[r] \in {"done", "raised"} =>
                  r_result[r] = AloneOutcome(r_request[r], r_env, r_gens[r], r_judges[r]))
    /\ [][ /\ r_env' = r_env
           /\ \E r \in Runs : \A q \in Runs \ {r} :
                  /\ r_pc'[q] = r_pc[q] /\ r_request'[q] = r_request[q]
                  /\ r_html'[q] = r_html[q] /\ r_validation'[q] = r_validation[q]
                  /\ r_result'[q] = r_result[q] /\ r_gens'[q] = r_gens[q]
                  /\ r_judges'[q] = r_judges[q] ]_vars

\* both runs finished, one after a repair cycle and one without, with different
\* markup
C20_Witness ==
    /\ r_pc[1] = "done" /\ r_pc[2] = "done" /\ r_env
    /\ Len(r_gens[1]) = 2 /\ Len(r_gens[2]) = 1
    /\ r_result[1].html # r_result[2].html
    /\ r_request[1].market # r_request[2].market

\* The first validation has returned and the if of line 214 has been passed.
PastCheck ==
    \/ pc \in {"regenerate", "revalidate", "return", "done"}
    \/ pc = "raised" /\ val_calls >= 1

\* C21: the repair cycle runs if and only if the first validation result has a
\* false valid and a non-empty missing_sections (both as Python truth values);
\* with a false valid and an empty missing_sections the first markup and the
\* first result are returned at once, with no repair prompt and no second
\* generation.
C21_RepairIffInvalidAndMissing ==
    /\ repair_calls >= 1 =>
           /\ val_calls >= 1
           /\ ~Truthy(first_validation.valid)
           /\ Truthy(first_validation.missing_sections)
    /\ (PastCheck /\ ~Truthy(first_validation.valid)
          /\ Truthy(first_validation.missing_sections)) => repair_calls = 1
    /\ (val_calls >= 1 /\ ~Truthy(first_validation.valid)
          /\ ~Truthy(first_validation.missing_sections)) =>
           /\ pc \in {"check", "done"}
           /\ gen_calls = 1 /\ val_calls = 1 /\ repair_calls = 0
           /\ repair_message = <<>>
           /\ pc = "done" => result = Outcome("return", 0, html_code, first_validation)

\* a finished run whose first result said valid = false with an empty list of
\* missing sections: one generation, no repair
C21_Witness ==
    /\ pc = "done" /\ first_validation.valid = JFalse
    /\ first_validation.missing_sections = JList(<<>>)
    /\ gen_calls = 1 /\ repair_calls = 0 /\ result.validation = first_validation

\* C22: within one run the steps happen in a fixed order: the first validation
\* starts only after the first generation has returned markup, the repair
\* prompt is built only after the first validation has returned and from that
\* validation's missing_sections, the second generation starts only after the
\* repair prompt is built, and the second validation only after the second
\* generation has returned.
C22_FixedOrder ==
    [][ /\ gen_calls' > gen_calls =>
               /\ gen_calls = 0 => (val_calls = 0 /\ repair_calls = 0 /\ html_code = None)
               /\ gen_calls = 1 => (val_calls = 1 /\ repair_calls = 1 /\ repair_message # <<>>)
        /\ val_calls' > val_calls =>
               /\ gen_calls = val_calls + 1
               /\ last_response.kind = "text" /\ html_code # None
               /\ val_calls = 0 => repair_calls = 0
               /\ val_calls = 1 => repair_calls = 1
        /\ repair_calls' > repair_calls =>
               /\ gen_calls = 1 /\ val_calls = 1 /\ repair_calls = 0
               /\ validation = first_validation
               /\ pc' = "regenerate" =>
                      repair_message' =
                          <<user_message,
                            generate_repair_prompt(first_validation.missing_sections,
                                                   request.market).value>> ]_vars

\* a run that went through every step: the repair prompt lists what the first
\* validation reported, and the second result differs from the first
C22_Witness ==
    /\ pc = "done" /\ gen_calls = 2 /\ val_calls = 2 /\ repair_calls = 1
    /\ repair_message[2].sections_list = first_validation.missing_sections.items
    /\ validation # first_validation

\* C23: the asset guarantee is applied after every successful generation call:
\* the markup a run holds, which is the markup it passes to the validator and
\* the markup it returns, is an output of _ensure_tailwind_cdn, and the
\* validation result returned was computed on the markup returned.
C23_AssetsOnEveryMarkup ==
    /\ html_code # None =>
           /\ Contains(html_code, "tailwind")
           /\ ensure_tailwind_cdn(html_code) = html_code
    /\ (last_response.kind = "text" /\ pc # "raised") =>
           html_code = ensure_tailwind_cdn(clean_response(last_response.content))
    /\ pc = "done" =>
           /\ result.html = html_code /\ result.validation = validation
           /\ \E judge \in JudgeResponses :
                  result.validation = validate_website(result.html, request.market,
                                                       Env(api_key, judge)).value

\* a run that returned the markup of the repair call, whose response had no
\* framework reference: the returned markup has it, and the fallback result is
\* that of the returned markup
C23_Witness ==
    /\ pc = "done" /\ gen_calls = 2 /\ ~api_key
    /\ last_response.kind = "text" /\ ~Contains(last_response.content, "tailwind")
    /\ Contains(result.html, "tailwind")
    /\ result.validation = fallback_validation(result.html, request.market)

\* C24: the repair generation call uses the same system prompt as the first
\* call and a user message that is the whole original user message followed by
\* the repair instruction built from the first validation's missing_sections
\* and the run's market; the original user message is not changed or shortened.
C24_RepairMessage ==
    /\ gen_calls = 1 =>
           sent = Messages(compose_system_prompt(request), <<compose_user_message(request)>>)
    /\ gen_calls = 2 =>
           /\ sent.system = compose_system_prompt(request)
           /\ Len(sent.user) = 2
           /\ sent.user[1] = compose_user_message(request)
           /\ sent.user[2] = generate_repair_prompt(first_validation.missing_sections,
                                                    request.market).value
           /\ sent.user[2].sections_list = first_validation.missing_sections.items
    /\ pc # "compose" =>
           (system_prompt = compose_system_prompt(request)
              /\ user_message = compose_user_message(request))

\* the repair call of an IN run: the message sent starts with the user message
\* of the first call, WhatsApp line included, and ends with the repair prompt
C24_Witness ==
    /\ gen_calls = 2 /\ request.market = "IN" /\ Given(request.whatsapp_number)
    /\ sent.user[1] = user_message
    /\ "- WhatsApp Number:" \in Labels(sent.user[1])
    /\ sent.user[2].requirements # <<>>

ImageLabels == {image_labels[i] : i \in 1..Len(image_labels)} \cup {"Additional"}

ImageLines(msg) == {i \in 1..Len(msg) : msg[i].label \in ImageLabels}

\* The lines that appear only for a field that was supplied, apart from the
\* WhatsApp-message line.
FieldLinesOnlyWhenGiven(msg, req) ==
    /\ "- WhatsApp Number:" \in Labels(msg) => Given(req.whatsapp_number)
    /\ "USER IMAGES PROVIDED:" \in Labels(msg) => Given(req.user_images)
    /\ ImageLines(msg) # {} => Given(req.user_images)
    /\ "- Google Maps Link:" \in Labels(msg) => Given(req.google_map_link)
    /\ "- Brand Voice:" \in Labels(msg) => Given(req.brand_voice)
    /\ "- Booking Link:" \in Labels(msg) => Given(req.booking_link)
    /\ "- Contact Email:" \in Labels(msg) => Given(req.email)
    /\ Cardinality(ImageLines(msg)) <= 3

\* C25, as claimed: in the composed user message a line for an optional field
\* appears only when that field was supplied; no WhatsApp-message line appears
\* when whatsapp_message is absent; at most three image lines appear.
C25_AbsentFieldsOmitted ==
    m_pc = "composed" =>
        /\ FieldLinesOnlyWhenGiven(m_msg, m_req)
        /\ "- WhatsApp Message (URL encoded):" \in Labels(m_msg) => Given(m_req.whatsapp_message)

\* C25, amended: the same, but the WhatsApp-message line appears exactly when
\* the WhatsApp-number line does, and with whatsapp_message absent it carries
\* the default message, URL-encoded.
C25_AbsentFieldsOmittedButDefaultMessage ==
    m_pc = "composed" =>
        /\ FieldLinesOnlyWhenGiven(m_msg, m_req)
        /\ ("- WhatsApp Message (URL encoded):" \in Labels(m_msg))
               <=> ("- WhatsApp Number:" \in Labels(m_msg))
        /\ \A i \in 1..Len(m_msg) :
               m_msg[i].label = "- WhatsApp Message (URL encoded):" =>
                   /\ Given(m_req.whatsapp_number)
                   /\ ~Given(m_req.whatsapp_message) =>
                          /\ m_msg[i].value = UrlEncode(default_whatsapp_message)
                          /\ \A k \in 1..Len(m_msg[i].value) : m_msg[i].value[k] # " "
                   /\ Given(m_req.whatsapp_message) =>
                          m_msg[i].value = UrlEncode(m_req.whatsapp_message)

\* an IN request with a number, no message and four images: three image lines
\* and a message line with the default text
C25_Witness ==
    /\ m_pc = "composed" /\ m_req.market = "IN"
    /\ Given(m_req.whatsapp_number) /\ ~Given(m_req.whatsapp_message)
    /\ Len(m_req.user_images) = 4 /\ Cardinality(ImageLines(m_msg)) = 3
    /\ "- WhatsApp Message (URL encoded):" \in Labels(m_msg)

\* C26: the route takes the market from the x-market header or, when the
\* request carries no such header, from the market field of the request body: a
\* request with body market "IN" and no header runs the IN pipeline.
C26_MarketFromHeaderOrBody ==
    t_calls >= 1 =>
        /\ (t_in.header.present /\ t_in.header.value # "") => t_market = Upper(t_in.header.value)
        /\ ~t_in.header.present => t_market = t_in.market

\* C27: the checks run in the order rate limit, credits (production mode),
\* generation: a request denied by the rate limiter ends with 429, a request
\* without enough credits with 402, and in both cases generate_website_code,
\* the only caller of the generation model and of the validator, is not called.
C27_ChecksBeforeGeneration ==
    /\ t_pc = "credits" => t_in.is_allowed
    /\ (t_pc = "generate" \/ t_calls >= 1) =>
           (t_in.is_allowed /\ (t_in.is_production => t_in.credits = "enough"))
    /\ t_status = 429 <=> (t_pc = "responded" /\ ~t_in.is_allowed)
    /\ t_status = 402 <=>
           (t_pc = "responded" /\ t_in.is_allowed /\ t_in.is_production
              /\ t_in.credits = "short")
    /\ t_status \in {429, 402} => (t_calls = 0 /\ t_market = "")
    /\ t_calls <= 1

\* a request that the limiter let through, in production mode and short of
\* credits: 402 and no call
C27_Witness ==
    /\ t_pc = "responded" /\ t_status = 402 /\ t_calls = 0
    /\ t_in.is_allowed /\ t_in.is_production

\* C28: RateLimiter.is_rate_limited lets through at most max_requests requests
\* of one client on one path within any window of window_seconds, also when
\* several requests arrive within the same second (of any max_requests + 1
\* requests let through, the last comes at least window_seconds after the
\* first), and on a Redis error it reports the request as limited.
C28_AtMostMaxPerWindow ==
    LET max_requests == get_rate_limit(l_path)[1]
        window_seconds == get_rate_limit(l_path)[2]
    IN /\ \A i \in 1..Len(l_passed) :
              i + max_requests <= Len(l_passed) =>
                  l_passed[i + max_requests] - l_passed[i] >= window_seconds
       /\ l_result.error => l_result.limited

\* C29: UpstashRateLimiter never allows more than limit requests for one key
\* within one fixed window bucket, whatever the interleaving of concurrent
\* callers, and it fails closed: a call that finds Redis not configured, or
\* whose Redis call raises, returns not allowed.
C29_AtMostLimitPerBucket ==
    /\ \A b \in 0..MaxBucket : u_allowed[b] <= action_config(u_action).limit
    /\ \A p \in Callers : u_result[p].by \in {"not_configured", "error"} =>
                              ~u_result[p].is_allowed

\* C30: under concurrent deduct_credits calls for the same user, the manual
\* read-then-update path included, every call that returns True lowers the
\* balance by the cost of the action, so that the balance is below its start by
\* at least the cost times the number of such calls (no deduction is lost), and
\* the balance never becomes negative.
C30_NoLostDeduction ==
    c_configured =>
        /\ c_balance <= c_start - cost_of(c_action) * c_paid
        /\ c_balance >= 0

=============================================================================
